---- MODULE Spec2Model ----
(***************************************************************************)
(* Graph state and navigation engine of graph-hopper: the React provider   *)
(* that owns the node/edge store, the navigation stack and the pipelines   *)
(* that write to the store.  The repository carries three revisions of the *)
(* provider; rev says which one a behaviour runs.                          *)
(*                                                                         *)
(* React state is modelled as the variables graph, navigationStack,        *)
(* selectedNode, loading; the values a callback closes over are the values *)
(* of the last render, kept in rGraph, rNav, rSel, rLoading.  A render     *)
(* follows every asynchronous completion at once; calls made from the user *)
(* interface run against the last render until Render happens, so that two *)
(* of them can run against the same closure.                               *)
(* Arrays are kept in a heap (nh, eh) because two revisions mutate the     *)
(* arrays of a captured graph in place.                                    *)
(*                                                                         *)
(* Spec is the provider with its pipelines.  SpecSession adds logout and   *)
(* deselection, SpecFailure adds failing fetches (both without the profile *)
(* events).  SpecSubs follows the subscriptions and loader calls (reg),    *)
(* SpecTrust the trust-score queries and their cache over a clock (trust), *)
(* SpecMerge and SpecProfiles apply the two merges to any input, SpecPrune  *)
(* the selects to any graph; SpecBatch is the profile phase of one sync    *)
(* with batches of any length, SpecBatchFair the same with its timers      *)
(* firing, SpecCap one sync call on contact lists of any length.           *)
(* SpecFields and SpecOrder apply the merges to nodes with their fields    *)
(* and to contact lists in any order, SpecNotes and SpecArray follow the   *)
(* notes of the selected node and the array they are kept in, SpecDeselect *)
(* the deselection at any depth of the stack, SpecFollowing the following  *)
(* list of one node, SpecTimed the loaders over their timers, SpecColors   *)
(* and SpecCreate the helpers that colour and build a node.                *)
(***************************************************************************)
EXTENDS Integers, Sequences, FiniteSets, TLC

\* ---------------------------------------------------------------- bounds
MaxId == 3        \* identities
MaxList == 2      \* p tags of a contact list
MaxSync == 1      \* loadFollowersForNode calls in flight
MaxBatch == 1     \* profile updates waiting in a batch
MaxArmed == 1     \* handleSelectNode calls suspended before their sync
MaxStack == 3     \* entries of the navigation stack
MaxRuns == 2      \* runs of the initialization effect in one session
MaxSessions == 1  \* logins
MaxSubs == 3      \* subscriptions created
MaxCalls == 2     \* loadNotesForNode and loadFollowersForNode calls in flight
MaxTicks == 3     \* steps of the clock
MaxScore == 1     \* trust scores are 0..MaxScore
MaxKeys == 2      \* identities scored by one response
MaxPending == 11  \* profile updates waiting in a batch of the profile phase alone
MaxWaiting == 4   \* the same where the timers are required to fire
MaxLong == 52     \* p tags of a contact list given to one sync call alone
MaxOffset == 1    \* first keys of those lists

\* the state, the last render and every call in flight can hold an array
MaxRefs == MaxSync + 2

\* program constants
BatchSize == 10
MaxFollowersToLoad == 50

Ids == 1..MaxId
Refs == 1..MaxRefs
Me == 1

\* useState error (part_003 43): null or the message of part_003 461
NoError == "null"
FailedToLoad == "Failed to load followers"
\* CACHE_EXPIRATION (part_009 189) and the window of part_003 488, in ms
CacheExpiration == 1000 * 60 * 60 * 24 * 7
QueryWindow == 5 * 60 * 1000

V3 == "part_003"
V2 == "GraphProvider.tsx"
V1 == "part_004"
Revs == {V3, V2, V1}

VARIABLES
  rev,              \* revision of the provider
  user,             \* useAuth().user: 0 (null) or the pubkey
  nh, eh,           \* array heap (node arrays, edge arrays); useState graph is cell 1
  navigationStack,  \* useState navigationStack (ids of the stacked nodes)
  selectedNode,     \* useState selectedNode (id, 0 for null)
  loading,          \* useState loading
  rGraph, rNav, rSel, rLoading,  \* the values of the last render
  effL,             \* loading as the last run of the initialization effect saw it
  due,              \* graph changed since the last run of the initialization effect
  runs,             \* runs of the initialization effect so far
  init,             \* the running initialization
  handlers,         \* handleSelectNode call suspended in await loadNotesForNode
  error,            \* useState error
  session,          \* logins so far
  reg,              \* the subscriptions and the loader calls in flight
  trust,            \* clock, stored trust scores and the trust-score queries
  syncs             \* loadFollowersForNode calls in flight

vars == <<rev, user, nh, eh, navigationStack, selectedNode, loading,
          rGraph, rNav, rSel, rLoading, effL, due, runs, init, handlers, error, session, reg, trust, syncs>>

\* ---------------------------------------------------------------- data
Range(s) == {s[i] : i \in 1..Len(s)}

\* The nodes and edges arrays are kept as bags (element |-> number of
\* copies): the provider reads them with find/some/filter/map and writes
\* them with push, none of which depends on the order of the elements.
NoElems == <<>>
One(x) == [y \in {x} |-> 1]
Push(B, x) == IF x \in DOMAIN B THEN [B EXCEPT ![x] = @ + 1] ELSE B @@ (x :> 1)
RECURSIVE SumOver(_, _)
SumOver(B, S) == IF S = {} THEN 0
                 ELSE LET x == CHOOSE y \in S : TRUE IN B[x] + SumOver(B, S \ {x})
RemoveOne(B, x) == IF B[x] = 1 THEN [y \in DOMAIN B \ {x} |-> B[y]] ELSE [B EXCEPT ![x] = @ - 1]
Size(B) == SumOver(B, DOMAIN B)
Filter(B, keep) == [x \in DOMAIN B \cap keep |-> B[x]]
Concat(A, B) == [x \in DOMAIN A \cup DOMAIN B |->
                   (IF x \in DOMAIN A THEN A[x] ELSE 0) + (IF x \in DOMAIN B THEN B[x] ELSE 0)]

IdsOf(N) == {n.id : n \in DOMAIN N}
Has(N, id) == \E n \in DOMAIN N : n.id = id
IndexOf(s, id) == IF \E i \in 1..Len(s) : s[i] = id
                  THEN CHOOSE i \in 1..Len(s) : s[i] = id /\ \A j \in 1..(i-1) : s[j] # id
                  ELSE 0

Nodes == nh[1]
Edges == eh[1]
graph == [nodes |-> Nodes, edges |-> Edges]

CurrentUserNode(u) == [id |-> u, label |-> "You", cu |-> TRUE, ts |-> 1]
PlaceholderNode(id) == [id |-> id, label |-> "Loading...", cu |-> FALSE, ts |-> 0]
EdgeOf(s, t) == [s |-> s, t |-> t]

\* The contact lists (kind 3) the relays hold, a chain of acquaintances: the
\* focus identity follows its successor, the last identity its predecessor,
\* every other identity its predecessor and its successor.
Succ(pk) == (pk % MaxId) + 1
Pred(pk) == ((pk + MaxId - 2) % MaxId) + 1
Published(pk) == IF pk = Me THEN <<Succ(pk)>>
                 ELSE IF pk = MaxId THEN <<Pred(pk)>>
                 ELSE SubSeq(<<Pred(pk), Succ(pk)>>, 1, IF MaxList < 2 THEN MaxList ELSE 2)

\* ---------------------------------------------------------------- pruning
Incident(e, id) == e.s = id \/ e.t = id

\* a reset that prunes nothing
ResetKeepsAll(N, E, node) == [nodes |-> N, edges |-> E]

ResetGraphV3(N, E, node) ==
  LET directEdges == Filter(E, {e \in DOMAIN E : Incident(e, node.id)})
      directConnectionIds == {node.id} \cup {e.t : e \in {x \in DOMAIN directEdges : x.s = node.id}}
                                       \cup {e.s : e \in {x \in DOMAIN directEdges : x.t = node.id}}
      directNodes == Filter(N, {n \in DOMAIN N : n.id \in directConnectionIds})
  IN [nodes |-> Concat(One(node), Filter(directNodes, {n \in DOMAIN directNodes : n.id # node.id})),
      edges |-> directEdges]

TruncateGraph(N, E, newStack) ==
  LET stackNodeIds == Range(newStack)
      relevantEdges == Filter(E, {e \in DOMAIN E : e.s \in stackNodeIds \/ e.t \in stackNodeIds})
      connectedNodeIds == stackNodeIds \cup {e.s : e \in DOMAIN relevantEdges}
                                       \cup {e.t : e \in DOMAIN relevantEdges}
  IN [nodes |-> Filter(N, {n \in DOMAIN N : n.id \in connectedNodeIds}),
      edges |-> relevantEdges]

\* ---------------------------------------------------------------- init
NoInit == [pc |-> "idle", L |-> FALSE, u |-> 0]
NoSync == [st |-> "idle", pk |-> 0, authors |-> {}, batch |-> <<>>, timer |-> FALSE,
           cont |-> "none", gn |-> 0, ge |-> 0, todo |-> <<>>,
           fetch |-> FALSE, seen |-> FALSE, active |-> FALSE, cbs |-> <<>>, ses |-> 0]

\* The subscription bookkeeping: the subscriptions created so far (kind,
\* identity, stopped, initial fetch pending), the registry of
\* GraphProvider.tsx 46 (key |-> subscription, 0: no entry), the refs of
\* part_003 64-65, the state of part_003 57 with the value the cleanup of the
\* initialization effect closes over, the loader calls in flight, and the
\* notes state (part_003 46, 48): userNotes is the identity whose notes are
\* displayed (0: the empty array), notesError whether an error is set, and
\* notes the array a notes subscription collects its events in.  util is
\* the arguments and results of the calls of the functions of
\* utils/graph.ts made so far and profileCache the Map of profiles handed to
\* createNodeFromUser (a function on some keys).  timed is the loader call whose timers are
\* followed: its phase, the time of the call and the times its pending
\* timers are due (0: no timer).  following
\* is the state of a subscription of createFollowingSubscription (part_008
\* 223-298): whether its initial fetch is pending, lastEventTimestamp (0:
\* not set), the list last handed to onUpdate with the created_at of the
\* event it came from, and the created_at of the events received so far.
\* Map<string, number> of trust scores: a function on some identities
Maps == UNION {[S -> 0..MaxScore] : S \in SUBSET (1..MaxKeys)}
NoTrust == [now |-> 0, ticks |-> 0, store |-> <<>>, lastQueriedPubkey |-> 0,
            lastQueriedTimestamp |-> 0, isLoadingTrustScores |-> FALSE, rIsLoading |-> FALSE,
            calls |-> <<>>, cachedScores |-> <<>>, written |-> <<>>, writtenFor |-> 0,
            trustScores |-> <<>>,
            started |-> [r \in Ids |-> -1]]
Kinds == {"notes", "followers"}
NoReg == [subs |-> <<>>,
          map |-> [k \in Kinds \X Ids |-> 0],
          notesRef |-> 0,
          notesLoaded |-> 0,
          userNotes |-> 0,
          notesError |-> FALSE,
          notes |-> <<>>,
          isLoadingNotes |-> FALSE,
          util |-> <<>>,
          profileCache |-> <<>>,
          timed |-> [fn |-> "none", phase |-> "idle", start |-> 0, due |-> 0, eoseDue |-> 0,
                     got |-> FALSE],
          following |-> [fetch |-> FALSE, lastEventTimestamp |-> 0, currentFollowing |-> <<>>,
                         from |-> 0, received |-> {}],
          active |-> <<>>,
          effActive |-> <<>>,
          calls |-> <<>>]

Init ==
  /\ rev \in Revs
  /\ user = 0
  /\ nh = [r \in Refs |-> NoElems]
  /\ eh = [r \in Refs |-> NoElems]
  /\ navigationStack = <<>>
  /\ selectedNode = 0
  /\ loading = FALSE
  /\ rGraph = [n |-> 1, e |-> 1]
  /\ rNav = <<>>
  /\ rSel = 0
  /\ rLoading = FALSE
  /\ effL = FALSE
  /\ due = FALSE
  /\ runs = 0
  /\ init = NoInit
  /\ handlers = {}
  /\ error = NoError
  /\ session = 0
  /\ reg = NoReg
  /\ trust = NoTrust
  /\ syncs = [s \in 1..MaxSync |-> NoSync]

\* ---------------------------------------------------------------- React state
\* The array heap.  Cell 1 holds the array of the state variable graph; the
\* other cells hold the arrays that the last render or a callback in flight
\* still holds.  A cell nobody holds is empty.
HeldN(rg, sy) == {rg.n} \cup {sy[s].gn : s \in 1..MaxSync}
HeldE(rg, sy) == {rg.e} \cup {sy[s].ge : s \in 1..MaxSync}
Spare(held) == CHOOSE k \in Refs \ (held \cup {1}) : TRUE
Same == [r \in 0..MaxRefs |-> r]
Swap(a, b) == IF a = b THEN Same ELSE [r \in 0..MaxRefs |-> IF r = a THEN b ELSE IF r = b THEN a ELSE r]
\* where the arrays go when the state takes the array of cell c (c = 0: a new array)
Moves(held, c) == IF c = 0 THEN (IF 1 \in held THEN Swap(1, Spare(held)) ELSE Same)
                  ELSE Swap(1, c)
Moved(h, m, c, new) == [r \in Refs |-> IF r = 1 /\ c = 0 THEN new ELSE h[m[r]]]
Drop(h, held) == [r \in Refs |-> IF r = 1 \/ r \in held THEN h[r] ELSE NoElems]

\* The end of every action: the calls in flight become sy, the heap hn, he
\* (with the pushes made in place); the state keeps its arrays (cn, ce = 1),
\* takes the arrays of a captured graph (cn, ce = their cells) or new arrays
\* (cn, ce = 0) with the elements nodes, edges; a render or none.
Commit(sy, hn, he, cn, nodes, ce, edges, render) ==
  LET mn == Moves(HeldN(rGraph, sy), cn)
      me == Moves(HeldE(rGraph, sy), ce)
      rg == IF render THEN [n |-> 1, e |-> 1] ELSE [n |-> mn[rGraph.n], e |-> me[rGraph.e]]
      sy2 == [s \in 1..MaxSync |-> [sy[s] EXCEPT !.gn = mn[@], !.ge = me[@]]]
  IN /\ rGraph' = rg
     /\ syncs' = sy2
     /\ nh' = Drop(Moved(hn, mn, cn, nodes), HeldN(rg, sy2))
     /\ eh' = Drop(Moved(he, me, ce, edges), HeldE(rg, sy2))

SetGraph(sy, nodes, edges, render) == Commit(sy, nh, eh, 0, nodes, 0, edges, render)
SetGraphNodes(sy, nodes, render) == Commit(sy, nh, eh, 0, nodes, 1, NoElems, render)
KeepGraph(sy, render) == Commit(sy, nh, eh, 1, NoElems, 1, NoElems, render)

\* The render after an asynchronous completion.
Rendered == rNav' = navigationStack' /\ rSel' = selectedNode' /\ rLoading' = loading'
NotRendered == UNCHANGED <<rNav, rSel, rLoading>>

FreeSlots(f, idle) == {i \in DOMAIN f : f[i] = idle}
FirstFree(f, idle) == CHOOSE i \in FreeSlots(f, idle) : \A j \in FreeSlots(f, idle) : i <= j

\* ---------------------------------------------------------------- session
\* The calls a cancelled initializeApp run awaits no longer continue it
\* (isMountedRef.current = false, part_003 622, 628, 634, 651).
CancelInitConts == [s \in DOMAIN syncs |->
                      IF syncs[s].cont = "init" THEN [syncs[s] EXCEPT !.cont = "none"] ELSE syncs[s]]

\* The effect of part_003 578-668 run for user u: the cleanup of the run
\* before it, then initializeApp up to its first await.  closureLoading is
\* the value of loading its loadFollowersForNode closes over.
EffectV3(u, closureLoading) ==
  /\ runs < MaxRuns
  /\ runs' = runs + 1
  /\ effL' = closureLoading
  /\ due' = due
  /\ selectedNode' = u
  /\ navigationStack' = <<u>>
  /\ loading' = TRUE
  /\ init' = [pc |-> "connect", L |-> closureLoading, u |-> u]
  /\ error' = error
  /\ Rendered
  /\ SetGraph(CancelInitConts, One(CurrentUserNode(u)), NoElems, TRUE)

\* The effect of GraphProvider.tsx 531-607 and of part_004 441-505 run for
\* user u, up to its first await.  Its loadFollowersForNode closes over the
\* graph of the render that ran the effect, which holds the state's arrays.
StartClosure(u) ==
  [syncs EXCEPT ![FirstFree(syncs, NoSync)] =
     [NoSync EXCEPT !.st = "closure", !.pk = u, !.cont = "init", !.gn = 1, !.ge = 1,
                    !.ses = session']]

EffectV2(u) ==
  /\ runs < MaxRuns
  /\ FreeSlots(syncs, NoSync) # {}
  /\ runs' = runs + 1
  /\ due' = FALSE
  /\ loading' = TRUE
  /\ init' = [pc |-> "connect", L |-> FALSE, u |-> u]
  /\ error' = NoError
  /\ UNCHANGED <<navigationStack, selectedNode, effL>>
  /\ Rendered
  /\ KeepGraph(StartClosure(u), TRUE)

Login(u) ==
  /\ user = 0
  /\ init.pc = "idle"
  /\ session < MaxSessions
  /\ session' = session + 1
  /\ user' = u
  /\ IF rev = V3 THEN EffectV3(u, loading) ELSE EffectV2(u)
  /\ UNCHANGED <<rev, reg, trust, handlers>>

\* logout (part_001 92-98) under part_003: user becomes null; the cleanup of
\* the initialization effect runs and its body returns at once (part_003
\* 580, 650-667).  Graph, selection and navigation stack are not touched.
Logout ==
  /\ rev = V3
  /\ user # 0
  /\ user' = 0
  /\ runs' = 0
  /\ init' = NoInit
  /\ effL' = loading
  /\ UNCHANGED <<rev, reg, trust, error, session, navigationStack, selectedNode, loading, due, handlers>>
  /\ Rendered
  /\ KeepGraph(CancelInitConts, TRUE)

\* React renders after calls made from the user interface.
Render ==
  /\ <<rGraph, rNav, rSel, rLoading>> # <<[n |-> 1, e |-> 1], navigationStack, selectedNode, loading>>
  /\ UNCHANGED <<rev, reg, trust, error, session, user, navigationStack, selectedNode, loading, effL, due, runs,
                 init, handlers>>
  /\ Rendered
  /\ KeepGraph(syncs, TRUE)

\* In part_003 loadFollowersForNode is recreated when loading changes (470)
\* and is a dependency of the initialization effect (668): after a render
\* with another value of loading the effect is cleaned up and runs again.
EffectRerun ==
  /\ rev = V3
  /\ user # 0
  /\ rLoading # effL
  /\ UNCHANGED <<rev, reg, trust, session, user, handlers>>
  /\ EffectV3(user, rLoading)

\* ---------------------------------------------------------------- selection
\* the branches of handleSelectNode (part_003 682-724, 727-767, 768-771)
ResetBranchV3(n) ==
  /\ navigationStack' = <<n.id>>
  /\ LET g == ResetGraphV3(Nodes, Edges, n) IN SetGraph(syncs, g.nodes, g.edges, FALSE)

TruncateBranchV3(n) ==
  LET nodeIndex == IndexOf(rNav, n.id)
      newStack == SubSeq(rNav, 1, nodeIndex)
      g == TruncateGraph(Nodes, Edges, newStack)
  IN /\ navigationStack' = newStack
     /\ SetGraph(syncs, g.nodes, g.edges, FALSE)

\* a push that prunes the graph to the neighbourhood of the pushed node
PushBranchPruning(n) ==
  /\ Len(navigationStack) < MaxStack
  /\ navigationStack' = Append(navigationStack, n.id)
  /\ LET g == TruncateGraph(Nodes, Edges, <<n.id>>) IN SetGraph(syncs, g.nodes, g.edges, FALSE)

PushBranchV3(n) ==
  /\ Len(navigationStack) < MaxStack
  /\ navigationStack' = Append(navigationStack, n.id)
  /\ KeepGraph(syncs, FALSE)

\* handleSelectNode(node) of part_003 up to its first await (671-775); the
\* node is an object of the rendered graph (Graph.tsx 76-83).
SelectV3(n) ==
  /\ rev = V3
  /\ n \in DOMAIN nh[rGraph.n]
  /\ ~(rSel # 0 /\ n.id = rSel)
  /\ selectedNode' = n.id
  /\ IF ~rLoading /\ ~\E e \in DOMAIN eh[rGraph.e] : Incident(e, n.id)
     THEN /\ Cardinality(handlers \cup {n.id}) <= MaxArmed
          /\ handlers' = handlers \cup {n.id}
     ELSE handlers' = handlers
  /\ UNCHANGED <<rev, reg, trust, error, session, user, loading, effL, due, runs, init>>
  /\ NotRendered
  /\ IF n.cu THEN ResetBranchV3(n)
     ELSE IF IndexOf(rNav, n.id) > 0 THEN TruncateBranchV3(n)
     ELSE PushBranchV3(n)

\* a deselection that leaves the notes as they are
SelectNullKeepsNotes ==
  /\ rSel # 0
  /\ selectedNode' = 0
  /\ UNCHANGED <<rev, reg, trust, error, session, user, navigationStack, loading, effL, due, runs, init, handlers>>
  /\ NotRendered
  /\ KeepGraph(syncs, FALSE)

\* handleSelectNode(null) (part_003 678, 786-792; GraphProvider.tsx 190,
\* 285-289; part_004 74, 160-164), called when the node details are closed
\* (Graph.tsx 144).
SelectNull ==
  /\ rSel # 0
  /\ selectedNode' = 0
  /\ reg' = [reg EXCEPT !.userNotes = 0, !.notesError = FALSE,
                        !.notesLoaded = IF rev = V3 THEN 0 ELSE @]
  /\ UNCHANGED <<rev, trust, error, session, user, navigationStack, loading, effL, due, runs, init, handlers>>
  /\ NotRendered
  /\ KeepGraph(syncs, FALSE)

\* ---------------------------------------------------------------- connection sync
\* loadFollowersForNode(pubkey) of part_003 up to its first await (203-252);
\* the caller has checked that the closure's loading is false (216).
CanStart == FreeSlots(syncs, NoSync) # {}
StartSyncV3(pk, cont) ==
  [syncs EXCEPT ![FirstFree(syncs, NoSync)] = [NoSync EXCEPT !.st = "wait", !.pk = pk, !.cont = cont,
                                                       !.ses = session]]

\* handleSelectNode after await loadNotesForNode (part_003 777-781): the
\* closure saw loading false and no edge at the node.
SelectAfterNotes(id) ==
  /\ id \in handlers
  /\ handlers' = handlers \ {id}
  /\ CanStart
  /\ loading' = TRUE
  /\ UNCHANGED <<rev, reg, trust, error, session, user, navigationStack, selectedNode, effL, due, runs, init>>
  /\ Rendered
  /\ KeepGraph(StartSyncV3(id, "none"), TRUE)

\* loadFollowersForNode called through the context for the node just
\* selected (Graph.tsx 83-86) or for the user (Graph.tsx 781).
LoadFollowersCallV3(pk) ==
  /\ rev = V3
  /\ pk \in {rSel, user} \ {0}
  /\ ~rLoading
  /\ CanStart
  /\ loading' = TRUE
  /\ UNCHANGED <<rev, reg, trust, error, session, user, navigationStack, selectedNode, effL, due, runs, init, handlers>>
  /\ Rendered
  /\ KeepGraph(StartSyncV3(pk, "none"), TRUE)

\* a merge that looks up neither the node nor the edge before it pushes
RECURSIVE MergeContactsUnchecked(_, _, _, _)
MergeContactsUnchecked(N, E, pubkey, followed) ==
  IF followed = <<>> THEN [nodes |-> N, edges |-> E]
  ELSE MergeContactsUnchecked(Push(N, PlaceholderNode(Head(followed))),
                              Push(E, EdgeOf(pubkey, Head(followed))), pubkey, Tail(followed))

\* a merge that puts a placeholder in the place of the node of every
\* followed key
RECURSIVE MergeContactsReplacing(_, _, _, _)
MergeContactsReplacing(N, E, pubkey, followed) ==
  IF followed = <<>> THEN [nodes |-> N, edges |-> E]
  ELSE LET f == Head(followed)
           N2 == Push(Filter(N, {n \in DOMAIN N : n.id # f}), PlaceholderNode(f))
           E2 == IF EdgeOf(pubkey, f) \in DOMAIN E THEN E
                 ELSE Push(E, EdgeOf(pubkey, f))
       IN MergeContactsReplacing(N2, E2, pubkey, Tail(followed))

\* setGraph(prevGraph => ...) of part_003 289-332 for the followed pubkeys:
\* the body of the forEach for one key, and the forEach over a list as the
\* forEach over its first half followed by the forEach over its second
\* half (the result g of the first half is computed before the second half
\* is entered).
RECURSIVE MergeContactsV3(_, _, _, _)
MergeContactsV3(N, E, pubkey, followed) ==
  IF followed = <<>> THEN [nodes |-> N, edges |-> E]
  ELSE IF Len(followed) = 1
  THEN LET f == followed[1]
       IN [nodes |-> IF Has(N, f) THEN N ELSE Push(N, PlaceholderNode(f)),
           edges |-> IF EdgeOf(pubkey, f) \in DOMAIN E THEN E
                     ELSE Push(E, EdgeOf(pubkey, f))]
  ELSE LET h == Len(followed) \div 2
           g == MergeContactsV3(N, E, pubkey, SubSeq(followed, 1, h))
       IN IF DOMAIN g = {} THEN g
          ELSE MergeContactsV3(g.nodes, g.edges, pubkey, SubSeq(followed, h + 1, Len(followed)))

Limited(followed) == SubSeq(followed, 1, IF Len(followed) < MaxFollowersToLoad
                                       THEN Len(followed) ELSE MaxFollowersToLoad)

\* What the awaiting caller does once loadFollowersForNode returns.
SyncReturns(s) ==
  IF syncs[s].cont = "init" /\ init.pc = "followers"
  THEN init' = [init EXCEPT !.pc = "trust"]
  ELSE UNCHANGED init

\* The contact list arrived with at least one p tag (part_003 263-343).
SyncContactsV3(s) ==
  /\ syncs[s].st = "wait"
  /\ LET followed == Published(syncs[s].pk)
         g == MergeContactsV3(Nodes, Edges, syncs[s].pk, Limited(followed))
     IN /\ SyncReturns(s)
        /\ UNCHANGED <<rev, reg, trust, error, session, user, navigationStack, selectedNode, loading, effL, due, runs, handlers>>
        /\ Rendered
        /\ SetGraph([syncs EXCEPT ![s].st = "profiles", ![s].authors = Range(Limited(followed)),
                                    ![s].cont = "none"],
                    g.nodes, g.edges, TRUE)

\* No contact list within 5 s, or one without p tags (part_003 254-277).
SyncNoContacts(s) ==
  /\ syncs[s].st \in {"wait", "follows"}
  /\ loading' = FALSE
  /\ SyncReturns(s)
  /\ UNCHANGED <<rev, reg, trust, error, session, user, navigationStack, selectedNode, effL, due, runs, handlers>>
  /\ Rendered
  /\ KeepGraph([syncs EXCEPT ![s] = NoSync], TRUE)

ProfileNode(id) == [id |-> id, label |-> "profile", cu |-> FALSE, ts |-> 0]
\* { ...updatedNodes[nodeIndex], ...updatedNode } (part_003 367-370): the
\* update carries no trustScore.
Spread(old, upd) == [id |-> upd.id, label |-> upd.label, cu |-> upd.cu, ts |-> old.ts]

\* the setGraph of flushProfileUpdates (part_003 355-378)
RECURSIVE ApplyProfileUpdates(_, _)
ApplyProfileUpdates(N, updates) ==
  IF updates = <<>> THEN N
  ELSE LET u == Head(updates)
       IN ApplyProfileUpdates(IF ~Has(N, u.id) THEN Push(N, u)
                              ELSE LET old == CHOOSE n \in DOMAIN N : n.id = u.id
                                   IN Push(RemoveOne(N, old), Spread(old, u)),
                              Tail(updates))

\* a flush that empties the batch without writing it to the store
FlushDropsBatch(sy, batch) == KeepGraph(sy, TRUE)

\* flushProfileUpdates (part_003 350-382): graph part.
Flush(sy, batch) ==
  IF batch = <<>> THEN KeepGraph(sy, TRUE)
  ELSE SetGraphNodes(sy, ApplyProfileUpdates(Nodes, batch), TRUE)

\* profileSub.on('event') (part_003 385-429), while fewer than bound updates
\* are waiting
ProfileEventWithin(s, id, bound) ==
  /\ syncs[s].st = "profiles"
  /\ id \in syncs[s].authors
  /\ Len(syncs[s].batch) < bound
  /\ UNCHANGED <<rev, reg, trust, error, session, user, navigationStack, selectedNode, loading, effL, due, runs, init, handlers>>
  /\ Rendered
  /\ LET b == Append(syncs[s].batch, ProfileNode(id)) IN
     IF Len(b) >= BatchSize /\ ~syncs[s].timer
     THEN Flush([syncs EXCEPT ![s].batch = <<>>], b)
     ELSE KeepGraph([syncs EXCEPT ![s].batch = b, ![s].timer = TRUE], TRUE)

ProfileEvent(s, id) == ProfileEventWithin(s, id, MaxBatch)

\* the 500 ms batch timer fires (part_003 421-424)
BatchTimer(s) ==
  /\ syncs[s].st = "profiles"
  /\ syncs[s].timer
  /\ UNCHANGED <<rev, reg, trust, error, session, user, navigationStack, selectedNode, loading, effL, due, runs, init, handlers>>
  /\ Rendered
  /\ Flush([syncs EXCEPT ![s].batch = <<>>, ![s].timer = FALSE], syncs[s].batch)

\* the first of the two closing timers fires: 1 s after EOSE (445-457) or
\* the 8 s timeout (432-442).  The subscription is stopped and the batch is
\* empty from here on, so a batch timer still waiting will find nothing.
SyncClose(s) ==
  /\ syncs[s].st = "profiles"
  /\ loading' = FALSE
  /\ UNCHANGED <<rev, reg, trust, error, session, user, navigationStack, selectedNode, effL, due, runs, init, handlers>>
  /\ Rendered
  /\ Flush([syncs EXCEPT ![s].batch = <<>>, ![s].timer = FALSE, ![s].st = "closing"], syncs[s].batch)

\* the other closing timer fires, or never will (no EOSE before the stop)
SyncCloseAgain(s, fires) ==
  /\ syncs[s].st = "closing"
  /\ loading' = IF fires THEN FALSE ELSE loading
  /\ UNCHANGED <<rev, reg, trust, error, session, user, navigationStack, selectedNode, effL, due, runs, init, handlers>>
  /\ Rendered
  /\ KeepGraph([syncs EXCEPT ![s] = NoSync], TRUE)

\* ---------------------------------------------------------------- initializeApp
\* connectToUserRelays returned (part_003 615-625)
InitConnected(relaysConnected) ==
  /\ rev = V3
  /\ init.pc = "connect"
  /\ UNCHANGED <<rev, reg, trust, error, session, user, navigationStack, selectedNode, effL, due, runs, handlers>>
  /\ IF relaysConnected
     THEN IF init.L
          THEN /\ init' = [init EXCEPT !.pc = "trust"]
               /\ UNCHANGED loading
               /\ Rendered
               /\ KeepGraph(syncs, TRUE)
          ELSE /\ CanStart
               /\ loading' = TRUE
               /\ init' = [init EXCEPT !.pc = "followers"]
               /\ Rendered
               /\ KeepGraph(StartSyncV3(init.u, "init"), TRUE)
     ELSE /\ loading' = FALSE
          /\ init' = NoInit
          /\ Rendered
          /\ KeepGraph(syncs, TRUE)

\* loadWebOfTrustScores returned without scores (part_003 474-492); the
\* run ends with setLoading(false) (part_003 627-636, GraphProvider.tsx
\* 572-603, part_004 494-502)
InitDone ==
  /\ init.pc = (IF rev = V1 THEN "notes" ELSE "trust")
  /\ loading' = FALSE
  /\ init' = NoInit
  /\ UNCHANGED <<rev, reg, trust, error, session, user, navigationStack, selectedNode, effL, due, runs, handlers>>
  /\ Rendered
  /\ KeepGraph(syncs, TRUE)

\* ---------------------------------------------------------------- earlier revisions
\* initializeGraph (part_006 71-78) and createNodeFromUser (part_006 29-57)
InitialNode(u) == [id |-> u, label |-> "profile", cu |-> TRUE, ts |-> 0]

\* setGraph(prevGraph => ...) of GraphProvider.tsx 199-224 (part_004 82-107)
ResetGraphV2(N, E, node) ==
  LET currentUserEdges == Filter(E, {e \in DOMAIN E : e.s = node.id \/ e.t = node.id})
      directConnectionIds == {node.id}
                             \cup {e.t : e \in {x \in DOMAIN currentUserEdges : x.s = node.id}}
                             \cup {e.s : e \in {x \in DOMAIN currentUserEdges : x.t = node.id}}
  IN [nodes |-> Filter(N, {n \in DOMAIN N : n.id \in directConnectionIds}),
      edges |-> currentUserEdges]

\* setGraph(prevGraph => ...) of GraphProvider.tsx 236-270
TruncateGraphV2(N, E, newStack) ==
  LET stackNodeIds == Range(newStack)
      relevantEdges == Filter(E, {e \in DOMAIN E : e.s \in stackNodeIds \/ e.t \in stackNodeIds})
      keepNodeIds == stackNodeIds
                     \cup {e.t : e \in {x \in DOMAIN relevantEdges : x.s \in stackNodeIds}}
                     \cup {e.s : e \in {x \in DOMAIN relevantEdges : x.t \in stackNodeIds}}
  IN [nodes |-> Filter(N, {n \in DOMAIN N : n.id \in keepNodeIds}),
      edges |-> relevantEdges]

\* the edge of nodeId and followed, unless one exists in either direction
\* (GraphProvider.tsx 156-168, part_004 414-426)
MergeEdgeV2(E, nodeId, followed) ==
  IF \E e \in DOMAIN E : (e.s = nodeId /\ e.t = followed) \/ (e.s = followed /\ e.t = nodeId)
  THEN E ELSE Push(E, EdgeOf(nodeId, followed))

ClosureSlot == CHOOSE s \in 1..MaxSync : syncs[s].st = "closure"

\* A subscription whose initial fetch has returned, whose callbacks have
\* returned and which is stopped or has seen the contact list the relays
\* hold delivers nothing more.
Settle(sub) ==
  IF sub.st = "sub" /\ ~sub.fetch /\ sub.cbs = <<>> /\ (sub.seen \/ ~sub.active)
  THEN NoSync ELSE sub

\* loadFollowersForNode(nodeId) of GraphProvider.tsx 108-186 in slot s: the
\* subscription of nodeId is stopped and replaced by one whose callback
\* closes over the arrays gn, ge.
Subscribe(s, nodeId, gn, ge) ==
  [i \in 1..MaxSync |->
     IF i = s THEN [NoSync EXCEPT !.st = "sub", !.pk = nodeId, !.gn = gn, !.ge = ge,
                                  !.fetch = TRUE, !.active = TRUE,
                                  !.ses = IF syncs[s].st = "closure" THEN syncs[s].ses ELSE session]
     ELSE IF syncs[i].st = "sub" /\ syncs[i].pk = nodeId
          THEN Settle([syncs[i] EXCEPT !.active = FALSE])
          ELSE syncs[i]]

\* the loop of the callback (GraphProvider.tsx 140-169) up to its next await
RECURSIVE Advance(_, _, _, _)
Advance(N, E, nodeId, todo) ==
  IF todo = <<>> \/ ~Has(N, Head(todo)) THEN [nodes |-> N, edges |-> E, todo |-> todo]
  ELSE Advance(N, MergeEdgeV2(E, nodeId, Head(todo)), nodeId, Tail(todo))

\* The callback goes on in slot s, whose subscription is now sub, with the
\* arrays and the rest of the list a: to its next await, or to
\* setGraph(updatedGraph) (GraphProvider.tsx 172).
Continue(s, sub, a) ==
  LET hn == [nh EXCEPT ![sub.gn] = a.nodes]
      he == [eh EXCEPT ![sub.ge] = a.edges]
  IN IF a.todo = <<>>
     THEN /\ due' = TRUE
          /\ Commit([syncs EXCEPT ![s] = Settle(sub)], hn, he, sub.gn, NoElems, sub.ge, NoElems, TRUE)
     ELSE /\ due' = due
          /\ Commit([syncs EXCEPT ![s] = [sub EXCEPT !.cbs = Append(@, a.todo)]],
                    hn, he, 1, NoElems, 1, NoElems, TRUE)

\* subscription.on('event') with the contact list (part_008 234-259)
SubEvent(s) ==
  /\ syncs[s].st = "sub"
  /\ syncs[s].active
  /\ ~syncs[s].seen
  /\ UNCHANGED <<rev, reg, trust, error, session, user, navigationStack, selectedNode, loading, effL, runs, init, handlers>>
  /\ Rendered
  /\ Continue(s, [syncs[s] EXCEPT !.seen = TRUE],
              Advance(nh[syncs[s].gn], eh[syncs[s].ge], syncs[s].pk, Published(syncs[s].pk)))

\* the initial fetchEvents resolves (part_008 262-293)
SubFetch(s) ==
  /\ syncs[s].st = "sub"
  /\ syncs[s].fetch
  /\ UNCHANGED <<rev, reg, trust, error, session, user, navigationStack, selectedNode, loading, effL, runs, init, handlers>>
  /\ Rendered
  /\ Continue(s, [syncs[s] EXCEPT !.seen = TRUE, !.fetch = FALSE],
              Advance(nh[syncs[s].gn], eh[syncs[s].ge], syncs[s].pk, Published(syncs[s].pk)))

DropAt(q, i) == SubSeq(q, 1, i - 1) \o SubSeq(q, i + 1, Len(q))

\* createNodeFromUser resolves in callback i of the subscription in slot s
\* (GraphProvider.tsx 144-153)
CreatedV2(s, i) ==
  /\ syncs[s].st = "sub"
  /\ i \in 1..Len(syncs[s].cbs)
  /\ UNCHANGED <<rev, reg, trust, error, session, user, navigationStack, selectedNode, loading, effL, runs, init, handlers>>
  /\ Rendered
  /\ LET sub == syncs[s]
         f == Head(sub.cbs[i])
     IN Continue(s, [sub EXCEPT !.cbs = DropAt(@, i)],
                 Advance(Push(nh[sub.gn], ProfileNode(f)), MergeEdgeV2(eh[sub.ge], sub.pk, f),
                         sub.pk, Tail(sub.cbs[i])))

\* loadInitialGraph after its awaits up to await loadWebOfTrustScores
\* (GraphProvider.tsx 560-578)
InitGraphV2 ==
  /\ rev = V2
  /\ init.pc = "connect"
  /\ selectedNode' = init.u
  /\ navigationStack' = <<init.u>>
  /\ loading' = FALSE
  /\ due' = TRUE
  /\ init' = [init EXCEPT !.pc = "trust"]
  /\ error' = NoError
  /\ UNCHANGED <<rev, reg, trust, session, user, effL, runs, handlers>>
  /\ Rendered
  /\ SetGraph(Subscribe(ClosureSlot, init.u, syncs[ClosureSlot].gn, syncs[ClosureSlot].ge),
              One(InitialNode(init.u)), NoElems, TRUE)

\* loadFollowersForNode is recreated when graph changes (GraphProvider.tsx
\* 186) and is a dependency of the initialization effect (607).
EffectRerunV2 ==
  /\ rev = V2
  /\ user # 0
  /\ due
  /\ init.pc = "idle"
  /\ <<rGraph, rNav, rSel, rLoading>> = <<[n |-> 1, e |-> 1], navigationStack, selectedNode, loading>>
  /\ UNCHANGED <<rev, reg, trust, session, user, handlers>>
  /\ EffectV2(user)

\* cleanupSubscriptions (GraphProvider.tsx 49-54): every registered
\* subscription is stopped; a fetch or a callback in flight goes on.
StopAll == [s \in 1..MaxSync |->
              IF syncs[s].st = "sub" THEN Settle([syncs[s] EXCEPT !.active = FALSE]) ELSE syncs[s]]

\* loadInitialGraph without a user (GraphProvider.tsx 533-539, part_004
\* 443-448): graph and navigation stack are emptied; GraphProvider.tsx also
\* stops the subscriptions (524-528, 537).  A run of loadInitialGraph in
\* flight is not cancelled.
ClearV2 ==
  /\ navigationStack' = <<>>
  /\ due' = FALSE
  /\ Rendered
  /\ SetGraph(IF rev = V2 THEN StopAll ELSE syncs, NoElems, NoElems, TRUE)

\* logout (part_001 92-98) under GraphProvider.tsx and part_004
LogoutV2 ==
  /\ rev \in {V2, V1}
  /\ user # 0
  /\ user' = 0
  /\ runs' = 0
  /\ UNCHANGED <<rev, reg, trust, error, session, selectedNode, loading, effL, init, handlers>>
  /\ ClearV2

\* While nobody is logged in, the effect of GraphProvider.tsx 531-607 runs
\* again whenever the graph has changed (186, 607) and empties it again.
EffectClearV2 ==
  /\ rev = V2
  /\ user = 0
  /\ due
  /\ UNCHANGED <<rev, reg, trust, error, session, user, selectedNode, loading, effL, runs, init, handlers>>
  /\ ClearV2

\* the branches of handleSelectNode (GraphProvider.tsx 194-225, 228-271,
\* 272-281)
ResetBranchV2(n) ==
  /\ navigationStack' = <<n.id>>
  /\ UNCHANGED <<loading, error>>
  /\ due' = TRUE
  /\ LET g == ResetGraphV2(Nodes, Edges, n) IN SetGraph(syncs, g.nodes, g.edges, FALSE)

TruncateBranchV2(n) ==
  LET nodeIndex == IndexOf(rNav, n.id)
      newStack == SubSeq(rNav, 1, nodeIndex)
      g == TruncateGraphV2(Nodes, Edges, newStack)
  IN /\ navigationStack' = newStack
     /\ UNCHANGED <<loading, error>>
     /\ due' = TRUE
     /\ SetGraph(syncs, g.nodes, g.edges, FALSE)

PushBranchV2(n) ==
  /\ Len(navigationStack) < MaxStack
  /\ FreeSlots(syncs, NoSync) # {}
  /\ navigationStack' = Append(navigationStack, n.id)
  /\ loading' = FALSE
  /\ error' = NoError
  /\ due' = due
  /\ KeepGraph(Subscribe(FirstFree(syncs, NoSync), n.id, rGraph.n, rGraph.e), FALSE)

\* handleSelectNode(node) of GraphProvider.tsx 189-290 up to its await
SelectV2(n) ==
  /\ rev = V2
  /\ n \in DOMAIN nh[rGraph.n]
  /\ selectedNode' = n.id
  /\ UNCHANGED <<rev, reg, trust, session, user, effL, runs, init, handlers>>
  /\ NotRendered
  /\ IF n.cu THEN ResetBranchV2(n)
     ELSE IF IndexOf(rNav, n.id) > 0 THEN TruncateBranchV2(n)
     ELSE PushBranchV2(n)

\* loadFollowersForNode called through the context (Graph.tsx 83-86, 781)
LoadFollowersCallV2(pk) ==
  /\ rev = V2
  /\ pk \in {rSel, user} \ {0}
  /\ FreeSlots(syncs, NoSync) # {}
  /\ loading' = FALSE
  /\ error' = NoError
  /\ UNCHANGED <<rev, reg, trust, session, user, navigationStack, selectedNode, effL, due, runs, init, handlers>>
  /\ Rendered
  /\ KeepGraph(Subscribe(FirstFree(syncs, NoSync), pk, rGraph.n, rGraph.e), TRUE)

\* loadInitialGraph after initializeGraph up to await ndkUser.follows()
\* (part_004 470-475, 382-389)
InitGraphV1 ==
  /\ rev = V1
  /\ init.pc = "connect"
  /\ loading' = TRUE
  /\ init' = [init EXCEPT !.pc = "followers"]
  /\ error' = NoError
  /\ UNCHANGED <<rev, reg, trust, session, user, navigationStack, selectedNode, effL, due, runs, handlers>>
  /\ Rendered
  /\ SetGraph([syncs EXCEPT ![ClosureSlot].st = "follows"], One(InitialNode(init.u)), NoElems, TRUE)

\* ndkUser.follows() resolved with followed users (part_004 389-401)
FollowsV1(s) ==
  /\ syncs[s].st = "follows"
  /\ UNCHANGED <<rev, reg, trust, error, session, user, navigationStack, selectedNode, loading, effL, due, runs, init, handlers>>
  /\ Rendered
  /\ KeepGraph([syncs EXCEPT ![s].st = "create", ![s].todo = Published(syncs[s].pk)], TRUE)

\* createNodeFromUser resolved for the next followed user (part_004 401-433)
CreatedV1(s) ==
  /\ syncs[s].st = "create"
  /\ UNCHANGED <<rev, reg, trust, error, session, user, navigationStack, selectedNode, effL, due, runs, handlers>>
  /\ LET f == Head(syncs[s].todo)
         N == nh[syncs[s].gn]
         hn == [nh EXCEPT ![syncs[s].gn] = IF Has(N, f) THEN N ELSE Push(N, ProfileNode(f))]
         he == [eh EXCEPT ![syncs[s].ge] = MergeEdgeV2(@, syncs[s].pk, f)]
     IN IF Tail(syncs[s].todo) = <<>>
        THEN /\ loading' = FALSE
             /\ SyncReturns(s)
             /\ Rendered
             /\ Commit([syncs EXCEPT ![s] = NoSync], hn, he,
                       syncs[s].gn, NoElems, syncs[s].ge, NoElems, TRUE)
        ELSE /\ UNCHANGED <<loading, init>>
             /\ Rendered
             /\ Commit([syncs EXCEPT ![s].todo = Tail(@)], hn, he, 1, NoElems, 1, NoElems, TRUE)

\* loadInitialGraph after loadWebOfTrustScores up to await loadNotesForNode
\* (part_004 484-494)
InitSeedV1 ==
  /\ rev = V1
  /\ init.pc = "trust"
  /\ selectedNode' = init.u
  /\ navigationStack' = <<init.u>>
  /\ init' = [init EXCEPT !.pc = "notes"]
  /\ UNCHANGED <<rev, reg, trust, error, session, user, loading, effL, due, runs, handlers>>
  /\ Rendered
  /\ KeepGraph(syncs, TRUE)

\* handleSelectNode(node) of part_004 73-165 up to its await
SelectV1(n) ==
  /\ rev = V1
  /\ n \in DOMAIN nh[rGraph.n]
  /\ selectedNode' = n.id
  /\ UNCHANGED <<rev, reg, trust, error, session, user, loading, effL, due, runs, init, handlers>>
  /\ NotRendered
  /\ IF n.cu
     THEN /\ navigationStack' = <<n.id>>
          /\ LET g == ResetGraphV2(Nodes, Edges, n) IN SetGraph(syncs, g.nodes, g.edges, FALSE)
     ELSE LET nodeIndex == IndexOf(rNav, n.id) IN
          IF nodeIndex > 0
          THEN LET newStack == SubSeq(rNav, 1, nodeIndex)
                   g == TruncateGraph(Nodes, Edges, newStack)
               IN /\ navigationStack' = newStack
                  /\ SetGraph(syncs, g.nodes, g.edges, FALSE)
          ELSE /\ Len(navigationStack) < MaxStack
               /\ navigationStack' = Append(navigationStack, n.id)
               /\ KeepGraph(syncs, FALSE)

\* loadFollowersForNode called through the context (Graph.tsx 83-86, 781)
LoadFollowersCallV1(pk) ==
  /\ rev = V1
  /\ pk \in {rSel, user} \ {0}
  /\ FreeSlots(syncs, NoSync) # {}
  /\ loading' = TRUE
  /\ error' = NoError
  /\ UNCHANGED <<rev, reg, trust, session, user, navigationStack, selectedNode, effL, due, runs, init, handlers>>
  /\ Rendered
  /\ KeepGraph([syncs EXCEPT ![FirstFree(syncs, NoSync)] =
                  [NoSync EXCEPT !.st = "follows", !.pk = pk, !.gn = rGraph.n, !.ge = rGraph.e,
                                 !.ses = session]], TRUE)

\* every step but the arrival of a profile
NextQuiet ==
  \/ \E u \in {Me} : Login(u)
  \/ Render
  \/ EffectRerun
  \/ \E n \in DOMAIN nh[rGraph.n] : SelectV3(n)
  \/ \E id \in Ids : SelectAfterNotes(id)
  \/ \E pk \in Ids : LoadFollowersCallV3(pk)
  \/ \E s \in 1..MaxSync : SyncContactsV3(s)
  \/ \E s \in 1..MaxSync : SyncNoContacts(s)
  \/ \E s \in 1..MaxSync : SyncClose(s)
  \/ \E s \in 1..MaxSync : \E fires \in BOOLEAN : SyncCloseAgain(s, fires)
  \/ \E ok \in BOOLEAN : InitConnected(ok)
  \/ InitDone
  \/ InitGraphV2
  \/ EffectRerunV2
  \/ \E n \in DOMAIN nh[rGraph.n] : SelectV2(n)
  \/ \E pk \in Ids : LoadFollowersCallV2(pk)
  \/ \E s \in 1..MaxSync : SubEvent(s)
  \/ \E s \in 1..MaxSync : SubFetch(s)
  \/ \E s \in 1..MaxSync : \E i \in 1..Len(syncs[s].cbs) : CreatedV2(s, i)
  \/ InitGraphV1
  \/ InitSeedV1
  \/ \E n \in DOMAIN nh[rGraph.n] : SelectV1(n)
  \/ \E pk \in Ids : LoadFollowersCallV1(pk)
  \/ \E s \in 1..MaxSync : FollowsV1(s)
  \/ \E s \in 1..MaxSync : CreatedV1(s)

Next ==
  \/ NextQuiet
  \/ \E s \in 1..MaxSync : \E id \in Ids : ProfileEvent(s, id)
  \/ \E s \in 1..MaxSync : BatchTimer(s)

Spec == Init /\ [][Next]_vars

\* ---------------------------------------------------------------- sessions
\* ndk.subscribe throws in loadFollowersForNode called through the context
\* (part_003 237, 458-464): setLoading(true), setError and setLoading(false)
\* are one update.
LoadFollowersFailsV3(pk) ==
  /\ rev = V3
  /\ pk \in {rSel, user} \ {0}
  /\ ~rLoading
  /\ loading' = FALSE
  /\ error' = FailedToLoad
  /\ UNCHANGED <<rev, reg, trust, session, user, navigationStack, selectedNode, effL, due, runs, init, handlers>>
  /\ Rendered
  /\ KeepGraph(syncs, TRUE)

\* createFollowingSubscription throws in loadFollowersForNode called through
\* the context (GraphProvider.tsx 114-126, 180-185; part_008 217-219, 231):
\* the subscription of the node has been stopped before.
LoadFollowersFailsV2(pk) ==
  /\ rev = V2
  /\ pk \in {rSel, user} \ {0}
  /\ loading' = FALSE
  /\ error' = FailedToLoad
  /\ UNCHANGED <<rev, reg, trust, session, user, navigationStack, selectedNode, effL, due, runs, init, handlers>>
  /\ Rendered
  /\ KeepGraph([i \in 1..MaxSync |->
                  IF syncs[i].st = "sub" /\ syncs[i].pk = pk
                  THEN Settle([syncs[i] EXCEPT !.active = FALSE]) ELSE syncs[i]], TRUE)

\* The initial fetchEvents of a subscription resolves without an event or is
\* rejected (part_008 262-293: no onUpdate, and no rejection handler).
SubFetchNothing(s, rejected) ==
  /\ syncs[s].st = "sub"
  /\ syncs[s].fetch
  /\ UNCHANGED <<rev, reg, trust, error, session, user, navigationStack, selectedNode, loading, effL, due, runs,
                 init, handlers>>
  /\ Rendered
  /\ KeepGraph([syncs EXCEPT ![s] = Settle([syncs[s] EXCEPT !.fetch = FALSE])], TRUE)

\* ndkUser.follows() is rejected (part_004 388, 432-437)
FollowsFailsV1(s) ==
  /\ syncs[s].st = "follows"
  /\ rev = V1
  /\ loading' = FALSE
  /\ error' = FailedToLoad
  /\ SyncReturns(s)
  /\ UNCHANGED <<rev, reg, trust, session, user, navigationStack, selectedNode, effL, due, runs, handlers>>
  /\ Rendered
  /\ KeepGraph([syncs EXCEPT ![s] = NoSync], TRUE)

\* The provider with failing connection-list fetches, while no profile
\* arrives.
NextFailure ==
  \/ NextQuiet
  \/ \E pk \in Ids : LoadFollowersFailsV3(pk)
  \/ \E pk \in Ids : LoadFollowersFailsV2(pk)
  \/ \E s \in 1..MaxSync : \E rejected \in BOOLEAN : SubFetchNothing(s, rejected)
  \/ \E s \in 1..MaxSync : FollowsFailsV1(s)

SpecFailure == Init /\ [][NextFailure]_vars

\* The provider with logout and with the deselection of the node, while no
\* profile arrives.
NextSession ==
  \/ NextQuiet
  \/ Logout
  \/ LogoutV2
  \/ EffectClearV2
  \/ SelectNull

SpecSession == Init /\ [][NextSession]_vars

\* ---------------------------------------------------------------- the merges alone
\* The two merges of part_003 as functions of the store: from the initial
\* graph of a session (part_003 596-611), any contact list of any identity
\* is merged and any batch of profile updates is flushed, any number of
\* times.
Lists == UNION {[1..k -> Ids] : k \in 0..MaxList}
Batches == {[i \in 1..Len(l) |-> ProfileNode(l[i])] : l \in Lists}

InitMerge ==
  /\ rev = V3
  /\ user = Me
  /\ nh = [r \in Refs |-> IF r = 1 THEN One(CurrentUserNode(Me)) ELSE NoElems]
  /\ eh = [r \in Refs |-> NoElems]
  /\ navigationStack = <<Me>>
  /\ selectedNode = Me
  /\ loading = FALSE
  /\ rGraph = [n |-> 1, e |-> 1]
  /\ rNav = <<Me>>
  /\ rSel = Me
  /\ rLoading = FALSE
  /\ effL = FALSE
  /\ due = FALSE
  /\ runs = 1
  /\ init = NoInit
  /\ handlers = {}
  /\ error = NoError
  /\ session = 1
  /\ reg = NoReg
  /\ trust = NoTrust
  /\ syncs = [s \in 1..MaxSync |-> NoSync]

\* setGraph(prevGraph => ...) of part_003 289-332
MergeCall(pubkey, followed) ==
  /\ UNCHANGED <<rev, reg, trust, error, session, user, navigationStack, selectedNode, loading, effL, due, runs, init, handlers>>
  /\ Rendered
  /\ LET g == MergeContactsV3(Nodes, Edges, pubkey, Limited(followed))
     IN SetGraph(syncs, g.nodes, g.edges, TRUE)

\* setGraph(prevGraph => ...) of part_003 355-378
FlushCall(batch) ==
  /\ UNCHANGED <<rev, reg, trust, error, session, user, navigationStack, selectedNode, loading, effL, due, runs, init, handlers>>
  /\ Rendered
  /\ Flush(syncs, batch)

NextMerge ==
  \/ \E pubkey \in Ids : \E followed \in Lists : MergeCall(pubkey, followed)
  \/ \E batch \in Batches : FlushCall(batch)

SpecMerge == InitMerge /\ [][NextMerge]_vars

\* The selects of part_003 on any graph: contact lists of any identity are
\* merged into the store of a session, and the nodes the user interface
\* shows are selected.
NextPrune ==
  \/ \E pubkey \in Ids : \E followed \in Lists : MergeCall(pubkey, followed)
  \/ \E n \in DOMAIN nh[rGraph.n] : SelectV3(n)
  \/ SelectNull
  \/ Render

SpecPrune == InitMerge /\ [][NextPrune]_vars

\* The profile phase of one sync of part_003 (335-457): the contact list
\* <<2, 3>> of the user has been merged (289-332) and the profile
\* subscription is open; profile events arrive, up to MaxPending of them
\* before a flush, and the timers fire.
InitBatch ==
  /\ rev = V3
  /\ user = Me
  /\ nh = [r \in Refs |-> IF r = 1
                          THEN MergeContactsV3(One(CurrentUserNode(Me)), NoElems, Me, <<2, 3>>).nodes
                          ELSE NoElems]
  /\ eh = [r \in Refs |-> IF r = 1
                          THEN MergeContactsV3(One(CurrentUserNode(Me)), NoElems, Me, <<2, 3>>).edges
                          ELSE NoElems]
  /\ navigationStack = <<Me>>
  /\ selectedNode = Me
  /\ loading = TRUE
  /\ rGraph = [n |-> 1, e |-> 1]
  /\ rNav = <<Me>>
  /\ rSel = Me
  /\ rLoading = TRUE
  /\ effL = TRUE
  /\ due = FALSE
  /\ runs = 1
  /\ init = NoInit
  /\ handlers = {}
  /\ error = NoError
  /\ session = 1
  /\ reg = NoReg
  /\ trust = NoTrust
  /\ syncs = [s \in 1..MaxSync |->
                IF s = 1 THEN [NoSync EXCEPT !.st = "profiles", !.pk = Me, !.authors = {2, 3},
                                             !.ses = 1]
                ELSE NoSync]

NextBatch ==
  \/ \E s \in 1..MaxSync : \E id \in Ids : ProfileEventWithin(s, id, MaxPending)
  \/ \E s \in 1..MaxSync : BatchTimer(s)
  \/ \E s \in 1..MaxSync : SyncClose(s)
  \/ \E s \in 1..MaxSync : \E fires \in BOOLEAN : SyncCloseAgain(s, fires)

SpecBatch == InitBatch /\ [][NextBatch]_vars

\* The same phase with at most MaxWaiting updates waiting and with the
\* setTimeout callbacks running: the closing timer set when the
\* subscription is opened (432-442) fires, at the latest after 8 s, unless
\* the one set at EOSE (445-457) has fired before.
NextBatchFair ==
  \/ \E s \in 1..MaxSync : \E id \in Ids : ProfileEventWithin(s, id, MaxWaiting)
  \/ \E s \in 1..MaxSync : BatchTimer(s)
  \/ \E s \in 1..MaxSync : SyncClose(s)
  \/ \E s \in 1..MaxSync : \E fires \in BOOLEAN : SyncCloseAgain(s, fires)

SpecBatchFair ==
  /\ InitBatch
  /\ [][NextBatchFair]_vars
  /\ \A s \in 1..MaxSync : WF_vars(SyncClose(s))

\* One sync call on a contact list of up to MaxLong followed keys: the
\* p tags of the list are offset + 2, offset + 3, ...  In part_003 the list
\* is cut (279-283) and merged by the setGraph of 289-332; in
\* GraphProvider.tsx the callback of the subscription merges the list it
\* is given into the rendered graph (139-172).
LongList(offset, k) == [i \in 1..k |-> offset + 1 + i]

\* the loop of the callback (GraphProvider.tsx 139-169) with every
\* createNodeFromUser resolved: the body for one followed key, and the
\* loop over a list as the loop over its first half followed by the loop
\* over its second half
RECURSIVE MergeContactsV2(_, _, _, _)
MergeContactsV2(N, E, nodeId, followingList) ==
  IF followingList = <<>> THEN [nodes |-> N, edges |-> E]
  ELSE IF Len(followingList) = 1
  THEN LET f == followingList[1]
       IN [nodes |-> IF Has(N, f) THEN N ELSE Push(N, ProfileNode(f)),
           edges |-> MergeEdgeV2(E, nodeId, f)]
  ELSE LET h == Len(followingList) \div 2
           g == MergeContactsV2(N, E, nodeId, SubSeq(followingList, 1, h))
       IN IF DOMAIN g = {} THEN g
          ELSE MergeContactsV2(g.nodes, g.edges, nodeId,
                               SubSeq(followingList, h + 1, Len(followingList)))

InitCap ==
  /\ rev \in {V3, V2}
  /\ user = Me
  /\ nh = [r \in Refs |-> IF r # 1 THEN NoElems
                          ELSE IF rev = V3 THEN One(CurrentUserNode(Me)) ELSE One(InitialNode(Me))]
  /\ eh = [r \in Refs |-> NoElems]
  /\ navigationStack = <<Me>>
  /\ selectedNode = Me
  /\ loading = FALSE
  /\ rGraph = [n |-> 1, e |-> 1]
  /\ rNav = <<Me>>
  /\ rSel = Me
  /\ rLoading = FALSE
  /\ effL = FALSE
  /\ due = FALSE
  /\ runs = 1
  /\ init = NoInit
  /\ handlers = {}
  /\ error = NoError
  /\ session = 1
  /\ reg = NoReg
  /\ trust = NoTrust
  /\ syncs = [s \in 1..MaxSync |-> NoSync]

SyncLongV3(offset, k) ==
  /\ rev = V3
  /\ MergeCall(Me, LongList(offset, k))

SyncLongV2(offset, k) ==
  /\ rev = V2
  /\ k > 0
  /\ due' = TRUE
  /\ UNCHANGED <<rev, reg, trust, error, session, user, navigationStack, selectedNode, loading, effL, runs, init, handlers>>
  /\ Rendered
  /\ LET g == MergeContactsV2(Nodes, Edges, Me, LongList(offset, k))
     IN Commit(syncs, [nh EXCEPT ![1] = g.nodes], [eh EXCEPT ![1] = g.edges],
               1, NoElems, 1, NoElems, TRUE)

NextCap ==
  \/ \E offset \in 0..MaxOffset : \E k \in 0..MaxLong : SyncLongV3(offset, k)
  \/ \E offset \in 0..MaxOffset : \E k \in 0..MaxLong : SyncLongV2(offset, k)

SpecCap == InitCap /\ [][NextCap]_vars

\* Profile events with payloads that JSON.parse accepts or rejects: the
\* handler of part_003 385-429 builds a node from each and the batch is
\* flushed.
KeyPrefix == "pubkey.slice(0, 8)"
Payloads == UNION {[1..k -> Ids \X BOOLEAN] : k \in 0..MaxList}
\* updatedNode (part_003 398-412): with profileData = {} after a failed
\* parse the label is the beginning of the key
UpdatedNode(pubkey, decodable) ==
  IF decodable THEN ProfileNode(pubkey)
  ELSE [id |-> pubkey, label |-> KeyPrefix, cu |-> FALSE, ts |-> 0]
Built(events) == [i \in 1..Len(events) |-> UpdatedNode(events[i][1], events[i][2])]

ProfileEvents(events) ==
  /\ UNCHANGED <<rev, reg, trust, error, session, user, navigationStack, selectedNode, loading, effL, due, runs, init, handlers>>
  /\ Rendered
  /\ Flush(syncs, Built(events))

NextProfiles ==
  \/ \E pubkey \in Ids : \E followed \in Lists : MergeCall(pubkey, followed)
  \/ \E events \in Payloads : ProfileEvents(events)

SpecProfiles == InitMerge /\ [][NextProfiles]_vars
\* ---------------------------------------------------------------- subscriptions
\* The subscription bookkeeping of part_003 and GraphProvider.tsx on its
\* own: the loaders are called for any identity, the graph is left out and
\* initializeApp makes no call of its own.
GraphVars == <<nh, eh, navigationStack, selectedNode, rGraph, rNav, rSel, due, runs, init,
               handlers, error, syncs>>

NewSub(kind, key, fetch) == [kind |-> kind, key |-> key, stopped |-> FALSE, fetch |-> fetch]
\* subscription.stop() on the subscriptions S
Stop(subs, S) == [i \in DOMAIN subs |-> IF i \in S THEN [subs[i] EXCEPT !.stopped = TRUE] ELSE subs[i]]
CanSubscribe == Len(reg.subs) < MaxSubs
CanCall == Len(reg.calls) < MaxCalls
Call(fn, id, sub) == [fn |-> fn, id |-> id, sub |-> sub, got |-> FALSE]

\* login: the initialization effect runs (part_003 578-668) and its cleanup
\* closes over the activeSubscriptions of that render
LoginSubs(u) ==
  /\ user = 0
  /\ session < MaxSessions
  /\ session' = session + 1
  /\ user' = u
  /\ reg' = [reg EXCEPT !.effActive = reg.active]
  /\ UNCHANGED <<rev, trust, loading, rLoading, effL, GraphVars>>

\* logout (part_001 92-98): the cleanup of part_003 650-667, or
\* cleanupSubscriptions of GraphProvider.tsx 49-54 (524-528, 537)
LogoutSubs ==
  /\ user # 0
  /\ user' = 0
  /\ reg' = IF rev = V3
            THEN [reg EXCEPT !.subs = Stop(@, ({reg.notesRef} \ {0}) \cup Range(reg.effActive)),
                             !.notesRef = 0]
            ELSE [reg EXCEPT !.subs = Stop(@, {reg.map[k] : k \in Kinds \X Ids} \ {0}),
                             !.map = [k \in Kinds \X Ids |-> 0]]
  /\ UNCHANGED <<rev, trust, session, loading, rLoading, effL, GraphVars>>

RenderSubs ==
  /\ rLoading # loading
  /\ rLoading' = loading
  /\ UNCHANGED <<rev, reg, trust, session, user, loading, effL, GraphVars>>

\* loadNotesForNode(nodeId) of part_003 up to its await (96-156)
NotesCallV3(nodeId) ==
  /\ rev = V3
  /\ session > 0
  /\ reg.notesLoaded # nodeId
  /\ CanSubscribe
  /\ CanCall
  /\ LET new == Len(reg.subs) + 1 IN
     reg' = [reg EXCEPT !.subs = Append(Stop(@, {reg.notesRef} \ {0}), NewSub("notes", nodeId, FALSE)),
                        !.notesRef = new,
                        !.active = Append(@, new),
                        !.calls = Append(@, Call("notes", nodeId, new))]
  /\ UNCHANGED <<rev, trust, session, user, loading, rLoading, effL, GraphVars>>

\* EOSE (the subscription closes itself: closeOnEose, part_003 127-129) or
\* the 10 s timeout ends the wait of call c (part_003 153-165)
NotesResolveV3(c, eose) ==
  /\ rev = V3
  /\ c \in 1..Len(reg.calls)
  /\ reg.calls[c].fn = "notes"
  /\ eose => ~reg.subs[reg.calls[c].sub].stopped
  /\ reg' = [reg EXCEPT !.subs = IF eose THEN Stop(@, {reg.calls[c].sub}) ELSE @,
                        !.notesLoaded = reg.calls[c].id,
                        !.calls = DropAt(@, c)]
  /\ UNCHANGED <<rev, trust, session, user, loading, rLoading, effL, GraphVars>>

\* handleSelectNode(null) resets the ref (part_003 786-791)
NotesReset ==
  /\ rev = V3
  /\ reg.notesLoaded # 0
  /\ reg' = [reg EXCEPT !.notesLoaded = 0]
  /\ UNCHANGED <<rev, trust, session, user, loading, rLoading, effL, GraphVars>>

\* loadFollowersForNode(pubkey) of part_003 up to its await (203-252),
\* called from an event handler: the render follows
FollowersCallV3(pubkey) ==
  /\ rev = V3
  /\ session > 0
  /\ ~rLoading
  /\ CanSubscribe
  /\ CanCall
  /\ loading' = TRUE
  /\ reg' = [reg EXCEPT !.subs = Append(@, NewSub("followers", pubkey, FALSE)),
                        !.calls = Append(@, Call("followers", pubkey, Len(reg.subs) + 1))]
  /\ UNCHANGED <<rev, trust, session, user, rLoading, effL, GraphVars>>

\* sub.on('event') (part_003 241-244)
ContactEventV3(c) ==
  /\ rev = V3
  /\ c \in 1..Len(reg.calls)
  /\ reg.calls[c].fn = "followers"
  /\ ~reg.subs[reg.calls[c].sub].stopped
  /\ reg' = [reg EXCEPT !.subs = Stop(@, {reg.calls[c].sub}), !.calls[c].got = TRUE]
  /\ UNCHANGED <<rev, trust, session, user, loading, rLoading, effL, GraphVars>>

\* EOSE or the 5 s timeout ends the wait of call c (part_003 247-261,
\* 334-343)
ContactsResolveV3(c) ==
  /\ rev = V3
  /\ c \in 1..Len(reg.calls)
  /\ reg.calls[c].fn = "followers"
  /\ IF reg.calls[c].got
     THEN /\ CanSubscribe
          /\ reg' = [reg EXCEPT !.subs = Append(@, NewSub("profiles", reg.calls[c].id, FALSE)),
                                !.calls[c] = Call("profiles", reg.calls[c].id, Len(reg.subs) + 1)]
          /\ UNCHANGED <<loading, rLoading>>
     ELSE /\ reg' = [reg EXCEPT !.calls = DropAt(@, c)]
          /\ loading' = FALSE
          /\ rLoading' = FALSE
  /\ UNCHANGED <<rev, trust, session, user, effL, GraphVars>>

\* the closing timer of the profile subscription (part_003 432-457)
ProfilesCloseV3(c) ==
  /\ rev = V3
  /\ c \in 1..Len(reg.calls)
  /\ reg.calls[c].fn = "profiles"
  /\ reg' = [reg EXCEPT !.subs = Stop(@, {reg.calls[c].sub}), !.calls = DropAt(@, c)]
  /\ loading' = FALSE
  /\ rLoading' = FALSE
  /\ UNCHANGED <<rev, trust, session, user, effL, GraphVars>>

\* loadNotesForNode(nodeId) of GraphProvider.tsx up to await getUserNotes
\* (62-80)
NotesCallV2(nodeId) ==
  /\ rev = V2
  /\ session > 0
  /\ CanCall
  /\ reg' = [reg EXCEPT !.subs = Stop(@, {reg.map[<<"notes", nodeId>>]} \ {0}),
                        !.map[<<"notes", nodeId>>] = 0,
                        !.calls = Append(@, Call("notes", nodeId, 0))]
  /\ UNCHANGED <<rev, trust, session, user, loading, rLoading, effL, GraphVars>>

\* getUserNotes resolved in call c (GraphProvider.tsx 81-96): the notes
\* subscription is created and stored under its key
NotesFetchedV2(c) ==
  /\ rev = V2
  /\ c \in 1..Len(reg.calls)
  /\ reg.calls[c].fn = "notes"
  /\ CanSubscribe
  /\ reg' = [reg EXCEPT !.subs = Append(@, NewSub("notes", reg.calls[c].id, FALSE)),
                        !.map[<<"notes", reg.calls[c].id>>] = Len(reg.subs) + 1,
                        !.calls = DropAt(@, c)]
  /\ UNCHANGED <<rev, trust, session, user, loading, rLoading, effL, GraphVars>>

\* loadFollowersForNode(nodeId) of GraphProvider.tsx (108-127, 177-185):
\* the subscription is created with its initial fetch (part_008 231, 262)
FollowersCallV2(nodeId) ==
  /\ rev = V2
  /\ session > 0
  /\ CanSubscribe
  /\ reg' = [reg EXCEPT !.subs = Append(Stop(@, {reg.map[<<"followers", nodeId>>]} \ {0}),
                                        NewSub("followers", nodeId, TRUE)),
                        !.map[<<"followers", nodeId>>] = Len(reg.subs) + 1]
  /\ UNCHANGED <<rev, trust, session, user, loading, rLoading, effL, GraphVars>>

\* the initial fetchEvents of subscription i resolves (part_008 262-293)
FetchResolvedV2(i) ==
  /\ rev = V2
  /\ i \in 1..Len(reg.subs)
  /\ reg.subs[i].fetch
  /\ reg' = [reg EXCEPT !.subs[i].fetch = FALSE]
  /\ UNCHANGED <<rev, trust, session, user, loading, rLoading, effL, GraphVars>>

InitSubs == Init /\ rev \in {V3, V2}

NextSubs ==
  \/ LoginSubs(Me)
  \/ LogoutSubs
  \/ RenderSubs
  \/ \E x \in Ids : NotesCallV3(x)
  \/ \E c \in 1..MaxCalls : \E eose \in BOOLEAN : NotesResolveV3(c, eose)
  \/ NotesReset
  \/ \E x \in Ids : FollowersCallV3(x)
  \/ \E c \in 1..MaxCalls : ContactEventV3(c)
  \/ \E c \in 1..MaxCalls : ContactsResolveV3(c)
  \/ \E c \in 1..MaxCalls : ProfilesCloseV3(c)
  \/ \E x \in Ids : NotesCallV2(x)
  \/ \E c \in 1..MaxCalls : NotesFetchedV2(c)
  \/ \E x \in Ids : FollowersCallV2(x)
  \/ \E i \in 1..MaxSubs : FetchResolvedV2(i)

SpecSubs == InitSubs /\ [][NextSubs]_vars

\* ---------------------------------------------------------------- trust scores
\* JSON.stringify / JSON.parse of a score
Stringify(v) == ToString(v)
Parse(t) == CHOOSE v \in 0..MaxScore : ToString(v) = t

\* cacheTrustScores(scores) at time t (part_009 199-217): the new content of
\* localStorage under TRUST_SCORES_CACHE_KEY
cacheTrustScores(scores, t) ==
  <<[scores |-> [k \in DOMAIN scores |-> Stringify(scores[k])], timestamp |-> t]>>

\* an entry that expires already at the age of 7 days
ExpiredAtLimit(entry, t) == t - entry.timestamp >= CacheExpiration
\* the expiry test of part_009 233
Expired(entry, t) == t - entry.timestamp > CacheExpiration

\* getCachedTrustScores() at time t (part_009 223-251): the map returned and
\* the content of localStorage afterwards
getCachedTrustScores(store, t) ==
  IF store = <<>> THEN [map |-> <<>>, store |-> store]
  ELSE IF Expired(store[1], t) THEN [map |-> <<>>, store |-> <<>>]
  ELSE [map |-> [k \in DOMAIN store[1].scores |-> Parse(store[1].scores[k])], store |-> store]

\* the clock runs up to three expiry periods
Horizon == 3 * CacheExpiration

Tick(d) ==
  /\ trust.ticks < MaxTicks
  /\ trust.now <= Horizon - d
  /\ trust' = [trust EXCEPT !.now = @ + d, !.ticks = @ + 1,
                            !.started = [r \in Ids |-> IF trust.now + d - @[r] < QueryWindow
                                                       THEN @[r] ELSE -1]]
  /\ UNCHANGED <<rev, reg, session, user, loading, rLoading, effL, GraphVars>>

RenderTrust ==
  /\ trust.rIsLoading # trust.isLoadingTrustScores
  /\ trust' = [trust EXCEPT !.rIsLoading = trust.isLoadingTrustScores]
  /\ UNCHANGED <<rev, reg, session, user, loading, rLoading, effL, GraphVars>>

\* loadWebOfTrustScores(rootPubkey) up to the request to the DVM
\* (part_003 473-529)
TrustCall(rootPubkey) ==
  /\ rev = V3
  /\ user # 0
  /\ ~trust.rIsLoading
  /\ ~(trust.lastQueriedPubkey = rootPubkey
       /\ trust.now - trust.lastQueriedTimestamp < QueryWindow)
  /\ Len(trust.calls) < MaxCalls
  /\ LET got == getCachedTrustScores(trust.store, trust.now) IN
     trust' = [trust EXCEPT !.isLoadingTrustScores = TRUE,
                            !.lastQueriedPubkey = rootPubkey,
                            !.lastQueriedTimestamp = trust.now,
                            !.cachedScores = got.map,
                            !.trustScores = IF got.map # <<>> THEN got.map ELSE @,
                            !.store = got.store,
                            !.written = IF got.store = <<>> THEN <<>> ELSE @,
                            !.writtenFor = IF got.store = <<>> THEN 0 ELSE @,
                            !.calls = Append(@, rootPubkey),
                            !.started[rootPubkey] = trust.now]
  /\ UNCHANGED <<rev, reg, session, user, loading, rLoading, effL, GraphVars>>

\* getWebOfTrust resolves in call c (part_003 529-573): without results
\* (ok false), or with the scores of the response, which are cached and
\* become the trustScores state.  A failed fetch resolves with the empty
\* result (part_009 503-510).  writtenFor records the root identity the
\* cached scores were requested for (0: no score is cached).
TrustResolve(c, ok, results) ==
  /\ c \in 1..Len(trust.calls)
  /\ trust' = [trust EXCEPT !.store = IF ok THEN cacheTrustScores(results, trust.now) ELSE @,
                            !.written = IF ok THEN results ELSE @,
                            !.writtenFor = IF ~ok THEN @ ELSE IF results = <<>> THEN 0 ELSE trust.calls[c],
                            !.trustScores = IF ok THEN results ELSE @,
                            !.isLoadingTrustScores = FALSE,
                            !.rIsLoading = FALSE,
                            !.cachedScores = <<>>,
                            !.calls = DropAt(@, c)]
  /\ UNCHANGED <<rev, reg, session, user, loading, rLoading, effL, GraphVars>>

InitTrust == Init /\ rev = V3

NextTrust ==
  \/ LoginSubs(Me)
  \/ \E d \in {1, QueryWindow - 1, CacheExpiration} : Tick(d)
  \/ RenderTrust
  \/ \E r \in Ids : TrustCall(r)
  \/ \E c \in 1..MaxCalls : \E ok \in BOOLEAN : \E results \in Maps : TrustResolve(c, ok, results)

SpecTrust == InitTrust /\ [][NextTrust]_vars

\* ---------------------------------------------------------------- properties
\* handleSelectNode is called with node n of the rendered graph
Selected(n) == SelectV3(n) \/ SelectV2(n) \/ SelectV1(n)
\* the ids of the nodes an edge of E joins to a node of members
Neighbours(E, members) == {e.s : e \in {x \in DOMAIN E : x.t \in members}}
                          \cup {e.t : e \in {x \in DOMAIN E : x.s \in members}}
\* the graph the consumers of the context see
VisibleNodes == nh[rGraph.n]
VisibleEdges == eh[rGraph.e]

\* C1: a select that takes the push branch (the node is not the focus
\* identity and not in the navigation stack) leaves the graph store with at
\* least as many nodes and at least as many edges as before, in every
\* reachable state, whatever pipelines are in flight.
C1_PushDoesNotShrink ==
  [][\A n \in DOMAIN nh[rGraph.n] :
       (Selected(n) /\ ~n.cu /\ IndexOf(rNav, n.id) = 0)
       => (Size(Nodes') >= Size(Nodes) /\ Size(Edges') >= Size(Edges))]_vars

\* a push has just been handled on a graph with nodes and edges to lose
C1_Witness ==
  /\ Len(navigationStack) = Len(rNav) + 1
  /\ SubSeq(navigationStack, 1, Len(rNav)) = rNav
  /\ selectedNode = navigationStack[Len(navigationStack)]
  /\ rSel # selectedNode
  /\ Size(Nodes) >= 3
  /\ Size(Edges) >= 2

\* C2: when a node that is not the focus identity and stands at index k of
\* the navigation stack is selected, the stack becomes its prefix of length
\* k+1 and the nodes of the store become its nodes that are members of the
\* prefix or share an edge with a member; every other node is removed.
C2_TruncateExact ==
  [][\A n \in DOMAIN nh[rGraph.n] :
       (Selected(n) /\ ~n.cu /\ IndexOf(navigationStack, n.id) > 0)
       => LET prefix == SubSeq(navigationStack, 1, IndexOf(navigationStack, n.id))
              keep == Range(prefix) \cup Neighbours(Edges, Range(prefix))
          IN /\ navigationStack' = prefix
             /\ IdsOf(Nodes') = IdsOf(Nodes) \cap keep]_vars

\* C3: when the node marked isCurrentUser is selected, the navigation stack
\* becomes that node alone, the nodes of the store become that node and the
\* nodes an edge joins to it (in either direction), and the edges become the
\* edges incident to it.
C3_ResetExact ==
  [][\A n \in DOMAIN nh[rGraph.n] :
       (Selected(n) /\ n.cu)
       => /\ navigationStack' = <<n.id>>
          /\ IdsOf(Nodes') = {n.id} \cup (IdsOf(Nodes) \cap Neighbours(Edges, {n.id}))
          /\ DOMAIN Edges' = {e \in DOMAIN Edges : e.s = n.id \/ e.t = n.id}]_vars

\* a reset has just been handled that cut the stack and removed nodes
C3_Witness ==
  /\ user # 0
  /\ navigationStack = <<user>>
  /\ selectedNode = user
  /\ Len(rNav) >= 2
  /\ rSel # user
  /\ Size(VisibleNodes) > Size(Nodes)
  /\ Size(VisibleEdges) > Size(Edges)

\* C4: after any sequence of selects, two selects of one node against the
\* same rendered stack included, no identity is in the navigation stack
\* twice.
C4_NoDuplicateInStack ==
  \A i, j \in 1..Len(navigationStack) : i # j => navigationStack[i] # navigationStack[j]

\* the session has been seeded with the focus identity
Seeded ==
  /\ user # 0
  /\ \/ rev = V3
     \/ rev = V2 /\ (runs > 1 \/ init.pc # "connect")
     \/ rev = V1 /\ init.pc \in {"notes", "idle"}

\* C5: from the seeding of the session until logout the navigation stack is
\* not empty and begins with the focus identity, and a select handled while
\* the initialization runs does not leave a stack that begins with another
\* identity.
C5_StackBeginsWithFocus ==
  /\ Seeded => (navigationStack # <<>> /\ navigationStack[1] = user)
  /\ (user # 0 /\ init.pc # "idle" /\ navigationStack # <<>>) => navigationStack[1] = user

\* C6: in every reachable state the store holds no two nodes with one id.
C6_UniqueNodeIds ==
  \A n \in DOMAIN Nodes : Nodes[n] = 1 /\ \A m \in DOMAIN Nodes : m.id = n.id => m = n

\* C7: for any two identities the store holds at most one edge, whatever its
\* direction, after any sequence of connection syncs.
C7_OneEdgePerPair ==
  \A a, b \in Ids : SumOver(Edges, {e \in DOMAIN Edges : {e.s, e.t} = {a, b}}) <= 1

\* C8: in every state the consumers see, every edge has a node for its
\* source and a node for its target.
C8_NoDanglingEdge ==
  \A e \in DOMAIN VisibleEdges : Has(VisibleNodes, e.s) /\ Has(VisibleNodes, e.t)

\* a write of a pipeline: a contact list merge or a flush of profile updates
PipelineWriteBy(s) ==
  \/ SyncContactsV3(s) \/ BatchTimer(s) \/ SyncClose(s)
  \/ \E id \in Ids : ProfileEvent(s, id)
  \/ SubEvent(s) \/ SubFetch(s) \/ CreatedV1(s)
  \/ \E i \in 1..Len(syncs[s].cbs) : CreatedV2(s, i)
PipelineWrite == \E s \in 1..MaxSync : PipelineWriteBy(s)

\* C9: a write of a pipeline is applied to the store as it is at the time
\* of the write: every node and every edge in the store before the write
\* is in the store after it.
C9_WritesKeepTheStore ==
  [][PipelineWrite => (IdsOf(Nodes) \subseteq IdsOf(Nodes')
                       /\ DOMAIN Edges \subseteq DOMAIN Edges')]_vars

\* C10: merging the same contact list of the same identity twice, or
\* flushing the same profile updates twice, leaves the nodes, their fields
\* and the edges as merging them once.
C10_MergeIdempotent ==
  /\ \A pk \in Ids : \A followed \in Lists :
       LET g == MergeContactsV3(Nodes, Edges, pk, Limited(followed))
       IN MergeContactsV3(g.nodes, g.edges, pk, Limited(followed)) = g
  /\ \A batch \in Batches :
       LET N == ApplyProfileUpdates(Nodes, batch)
       IN ApplyProfileUpdates(N, batch) = N

\* a store into which a contact list and a profile update have been merged
C10_Witness ==
  /\ Size(Edges) >= 2
  /\ \E n \in DOMAIN Nodes : n.label = "profile"
  /\ \E n \in DOMAIN Nodes : n.label = "Loading..."

\* the last render shows the state as it is
UpToDate == <<rGraph, rNav, rSel, rLoading>>
            = <<[n |-> 1, e |-> 1], navigationStack, selectedNode, loading>>

\* C13: a completion of a pipeline that was started in a session that has
\* ended since (the user logged out, or another login followed) is
\* discarded: it changes neither the nodes nor the edges of the store.
C13_LateCompletionsDiscarded ==
  [][\A s \in 1..MaxSync :
       (PipelineWriteBy(s) /\ (user = 0 \/ syncs[s].ses # session))
       => (Nodes' = Nodes /\ Edges' = Edges)]_vars

\* C15: while nobody is logged in after a logout, the store holds no node
\* and no edge and the navigation stack is empty.
C15_LogoutClears ==
  user = 0 => (Nodes = NoElems /\ Edges = NoElems /\ navigationStack = <<>>)

\* the connection-list fetch fails
FetchFails ==
  \/ \E pk \in Ids : LoadFollowersFailsV3(pk) \/ LoadFollowersFailsV2(pk)
  \/ \E s \in 1..MaxSync : SubFetchNothing(s, TRUE) \/ FollowsFailsV1(s)
\* the connection-list fetch ends without a contact list
NoContactList == \E s \in 1..MaxSync : SyncNoContacts(s) \/ SubFetchNothing(s, FALSE)

\* C16: when the connection-list fetch of an identity fails or ends without
\* a contact list, the nodes and edges of the store stay as they were, and
\* after a failure the error flag holds a message.
C16_FailureLeavesStoreAndReports ==
  [][/\ (FetchFails \/ NoContactList) => (Nodes' = Nodes /\ Edges' = Edges)
     /\ FetchFails => error' # NoError]_vars

\* C17: selecting the node at the top of a navigation stack without
\* duplicates, from a render that shows the state as it is, changes neither
\* the stack nor the nodes and edges of the store; also when the selection
\* was cleared before.
C17_ReselectingTopIsNoOp ==
  [][\A n \in DOMAIN nh[rGraph.n] :
       (Selected(n) /\ UpToDate /\ C4_NoDuplicateInStack /\ navigationStack # <<>>
        /\ n.id = navigationStack[Len(navigationStack)])
       => (navigationStack' = navigationStack /\ Nodes' = Nodes /\ Edges' = Edges)]_vars

\* a call of loadNotesForNode(x) has not resolved yet
NotesPending(x) ==
  \E c \in DOMAIN reg.calls : reg.calls[c].fn = "notes" /\ reg.calls[c].id = x
\* the step starts the notes subscription of part_003 127 or the notes
\* fetch of GraphProvider.tsx 80 for x
NotesStarts(x) ==
  /\ Len(reg'.calls) > Len(reg.calls)
  /\ reg'.calls[Len(reg'.calls)].fn = "notes"
  /\ reg'.calls[Len(reg'.calls)].id = x

\* C11: while a call of loadNotesForNode(x) has not resolved, a second call
\* for the same x starts no further notes fetch or subscription: exactly
\* one is started for x.
C11_OneNotesFetchInFlight ==
  [][\A x \in Ids : NotesPending(x) => ~NotesStarts(x)]_vars

\* a sync of the connections of x is in flight: its contact list or its
\* profiles are awaited (part_003), or the initial fetch of its
\* subscription has not resolved (GraphProvider.tsx)
SyncPending(x) ==
  \/ \E c \in DOMAIN reg.calls :
       reg.calls[c].fn \in {"followers", "profiles"} /\ reg.calls[c].id = x
  \/ \E i \in DOMAIN reg.subs :
       reg.subs[i].kind = "followers" /\ reg.subs[i].key = x /\ reg.subs[i].fetch
\* the step starts a connection-list fetch or subscription for x
SyncStarts(x) ==
  /\ Len(reg'.subs) > Len(reg.subs)
  /\ reg'.subs[Len(reg'.subs)].kind = "followers"
  /\ reg'.subs[Len(reg'.subs)].key = x

\* C12: while a sync of the connections of x is in flight, no step starts a
\* second connection-list fetch or subscription for x.
C12_OneSyncInFlight ==
  [][\A x \in Ids : SyncPending(x) => ~SyncStarts(x)]_vars

\* C14: after the logout step no subscription started before it is still
\* active, whether the registry still holds it or not.
C14_LogoutStopsEverySubscription ==
  [][(user # 0 /\ user' = 0) => \A i \in DOMAIN reg'.subs : reg'.subs[i].stopped]_vars

\* the step is a call of loadWebOfTrustScores that reads the cache and
\* sends a request
TrustCalled == Len(trust'.calls) > Len(trust.calls)

C19_ThrottlePerIdentity ==
  [][\A r \in Ids :
       (trust.started[r] >= 0 /\ trust.now - trust.started[r] < QueryWindow)
       => ~(TrustCalled /\ trust'.lastQueriedPubkey = r)]_vars

\* the identities of which the events carry undecodable payloads only
UndecodableOnly(events) ==
  {id \in Ids : /\ \E i \in 1..Len(events) : events[i] = <<id, FALSE>>
                /\ \A i \in 1..Len(events) : events[i] # <<id, TRUE>>}

\* C20: whatever batch of profile events is flushed into the store, the
\* placeholder node of an identity whose payloads could not be decoded
\* stays as it was, with its label "Loading...", and the node of every
\* identity with a decodable payload carries the profile afterwards.
C20_UndecodableProfileSkipped ==
  \A events \in Payloads :
    LET N2 == ApplyProfileUpdates(Nodes, Built(events)) IN
    /\ \A n \in DOMAIN Nodes :
         (n.label = "Loading..." /\ n.id \in UndecodableOnly(events))
         => (n \in DOMAIN N2 /\ N2[n] = Nodes[n])
    /\ \A i \in 1..Len(events) :
         (events[i][2] /\ events[i][1] \notin {events[j][1] : j \in i+1..Len(events)})
         => \E n \in DOMAIN N2 : n.id = events[i][1] /\ n.label = "profile"

\* the step is the completion of a call of loadWebOfTrustScores
TrustResolved == Len(trust'.calls) < Len(trust.calls)

\* C21: a trust-score fetch that resolves without any score (as a failed
\* fetch does) leaves the trust-score map in memory and the persisted cache
\* as they were.
C21_FailedFetchKeepsScores ==
  [][(TrustResolved /\ trust'.trustScores = <<>>)
     => (trust'.trustScores = trust.trustScores /\ trust'.store = trust.store)]_vars

\* C22: while a sync of the connections of a is in flight, a call of
\* loadFollowersForNode(b) for another identity b, made from an up-to-date
\* render, starts the sync of b.
C22_OtherSyncDoesNotSuppress ==
  \A a \in Ids : \A b \in Ids \ {a} :
    (session > 0 /\ rLoading = loading /\ CanSubscribe /\ CanCall
     /\ SyncPending(a) /\ ~SyncPending(b))
    => ENABLED (FollowersCallV3(b) \/ FollowersCallV2(b))

\* the select of node n arms (part_003) or starts (GraphProvider.tsx) a
\* sync of the connections of n
ArmsSync(n) ==
  \/ n.id \in handlers' \ handlers
  \/ \E s \in 1..MaxSync : syncs[s] = NoSync /\ syncs'[s].pk = n.id

\* C23: a select that takes the push branch for x arms a sync of the
\* connections of x exactly when the store, as it is at the time of the
\* select, holds no edge incident to x.
C23_PushArmsSyncWithoutEdges ==
  [][\A n \in DOMAIN nh[rGraph.n] :
       ((SelectV3(n) \/ SelectV2(n)) /\ ~n.cu /\ IndexOf(rNav, n.id) = 0
        /\ n.id \notin handlers)
       => (ArmsSync(n) <=> ~\E e \in DOMAIN Edges : Incident(e, n.id))]_vars

\* every edge of the store joins two nodes of the store
NoDanglingEdge == \A e \in DOMAIN Edges : e.s \in IdsOf(Nodes) /\ e.t \in IdsOf(Nodes)

\* C24: a select that prunes (the reset on the focus identity, the
\* truncation on a member of the navigation stack) a store whose edges all
\* join nodes of the store leaves in the store exactly the edges it held
\* before whose two endpoints are nodes of the store after the prune.
C24_PruneKeepsEdgesOfRetained ==
  [][\A n \in DOMAIN nh[rGraph.n] :
       (Selected(n) /\ (n.cu \/ IndexOf(rNav, n.id) > 0) /\ NoDanglingEdge)
       => DOMAIN Edges' = {e \in DOMAIN Edges : e.s \in IdsOf(Nodes') /\ e.t \in IdsOf(Nodes')}]_vars

\* C25: while the store is emptied by nothing but the prunes of the selects
\* (the seeding effect has run once), a write of a pipeline to the store
\* adds a node that is not in the store only together with an edge
\* incident to that node; an identity that a prune removed while its
\* profile was awaited does not come back as a node without edges.
C25_LateWriteAddsNoBareNode ==
  [][\A s \in 1..MaxSync :
       (PipelineWriteBy(s) /\ runs = 1)
       => \A id \in IdsOf(Nodes') \ IdsOf(Nodes) :
            \E e \in DOMAIN Edges' \ DOMAIN Edges : Incident(e, id)]_vars

\* C26: in part_003, from the seeding of the graph until logout, the node
\* of the authenticated identity is marked isCurrentUser and no other node
\* is, whatever syncs and profile merges have written to the store.
C26_OnlyUserIsCurrentUser ==
  (Seeded /\ rev = V3) => \A n \in DOMAIN Nodes : n.cu <=> n.id = user

\* C27: while the 500 ms timer of a sync is waiting, its batch holds at most
\* batchSize profile updates that have not been flushed.
C27_BatchAtMostTen ==
  \A s \in 1..MaxSync : syncs[s].timer => Len(syncs[s].batch) <= BatchSize

\* a profile update of identity id is waiting in the batch of a sync
Pending(id) ==
  \E s \in 1..MaxSync : \E i \in 1..Len(syncs[s].batch) : syncs[s].batch[i].id = id

C29_SyncMaterializesAtMostFifty ==
  [][\A offset \in 0..MaxOffset : \A k \in 0..MaxLong :
       (SyncLongV3(offset, k) \/ SyncLongV2(offset, k))
       => /\ Size(Nodes') <= Size(Nodes) + MaxFollowersToLoad
          /\ Size(Edges') <= Size(Edges) + MaxFollowersToLoad
          /\ IdsOf(Nodes') \ IdsOf(Nodes) \subseteq Range(Limited(LongList(offset, k)))]_vars

\* C30: the merge of a contact list into the store leaves every node of
\* the store as it was, and the nodes it adds are placeholders (label
\* "Loading...", not the current user, no trust score) of followed keys
\* that were not nodes of the store, one for each such key.
C30_SyncAddsPlaceholdersOnly ==
  [][\A pubkey \in Ids : \A followed \in Lists :
       MergeCall(pubkey, followed)
       => /\ \A n \in DOMAIN Nodes : n \in DOMAIN Nodes' /\ Nodes'[n] = Nodes[n]
          /\ \A n \in DOMAIN Nodes' \ DOMAIN Nodes :
               /\ n = PlaceholderNode(n.id)
               /\ Nodes'[n] = 1
               /\ n.id \in Range(followed) \ IdsOf(Nodes)
          /\ Range(followed) \subseteq IdsOf(Nodes')]_vars

\* a contact list naming the user has been merged: the user's node is as it
\* was seeded, next to a node with a profile and a placeholder
C30_Witness ==
  /\ CurrentUserNode(Me) \in DOMAIN Nodes
  /\ \E e \in DOMAIN Edges : e.t = Me /\ e.s # Me
  /\ \E n \in DOMAIN Nodes : n.label = "profile" /\ \E e \in DOMAIN Edges : e.t = n.id
  /\ \E n \in DOMAIN Nodes : n.label = "Loading..."

\* ---------------------------------------------------------------- node fields
\* The nodes of the store with the fields of GraphNode (types/index.ts
\* 16-27): a node is a function of the names of the fields it has.
MaxFieldIds == 2
FieldIds == 1..MaxFieldIds
Names == {"alice", "bob"}
Scores == 0..MaxScore

\* the object literal { ...old, ...upd }
\* an object that keeps of old its id only
ObjectReplace(old, upd) ==
  [f \in {"id"} \cup DOMAIN upd |-> IF f \in DOMAIN upd THEN upd[f] ELSE old[f]]
ObjectSpread(old, upd) ==
  [f \in DOMAIN old \cup DOMAIN upd |-> IF f \in DOMAIN upd THEN upd[f] ELSE old[f]]

\* the value of field f of object n (<<>> when n has no such field)
Field(n, f) == IF f \in DOMAIN n THEN <<n[f]>> ELSE <<>>

\* the node built from a profile event (part_003 397-412)
ProfileUpdate(id, name) ==
  [id |-> id, label |-> name, color |-> "#3B82F6", isCurrentUser |-> FALSE, profile |-> name]

\* the nodes a store may hold for id: a placeholder (part_003 306-311) or
\* the user's node, laid out or not, without a trust score or with score 0
StoredNodes(id) ==
  {base @@ pos @@ score :
     base \in {[id |-> id, label |-> "Loading...", color |-> "#6B7280"],
               [id |-> id, label |-> "You", color |-> "#8B5CF6", isCurrentUser |-> TRUE]},
     pos \in {<<>>, [x |-> 10 * id, y |-> 20 * id]},
     score \in {<<>>, [trustScore |-> 0]}}

\* profileUpdates.forEach(...) of part_003 359-372
RECURSIVE ApplyUpdates(_, _)
ApplyUpdates(N, updates) ==
  IF updates = <<>> THEN N
  ELSE LET u == Head(updates)
       IN ApplyUpdates(IF ~Has(N, u.id) THEN Push(N, u)
                       ELSE LET old == CHOOSE n \in DOMAIN N : n.id = u.id
                            IN Push(RemoveOne(N, old), ObjectSpread(old, u)),
                       Tail(updates))

\* prevGraph.nodes.map(...) of part_003 554-560
WithTrustScore(node, newScores) ==
  IF node.id \in DOMAIN newScores
  THEN ObjectSpread(node, [trustScore |-> newScores[node.id]]) ELSE node
MapTrustScores(N, newScores) ==
  [m \in {WithTrustScore(n, newScores) : n \in DOMAIN N} |->
     SumOver(N, {n \in DOMAIN N : WithTrustScore(n, newScores) = m})]

\* the state of a session of the user with the store N, E, the navigation
\* stack stack and its last entry selected, no loader in flight
InitStoreAt(r, N, E, stack) ==
  /\ rev = r
  /\ user = Me
  /\ nh = [c \in Refs |-> IF c = 1 THEN N ELSE NoElems]
  /\ eh = [c \in Refs |-> IF c = 1 THEN E ELSE NoElems]
  /\ navigationStack = stack
  /\ selectedNode = stack[Len(stack)]
  /\ loading = FALSE
  /\ rGraph = [n |-> 1, e |-> 1]
  /\ rNav = stack
  /\ rSel = stack[Len(stack)]
  /\ rLoading = FALSE
  /\ effL = FALSE
  /\ due = FALSE
  /\ runs = 1
  /\ init = NoInit
  /\ handlers = {}
  /\ error = NoError
  /\ session = 1
  /\ reg = NoReg
  /\ trust = NoTrust
  /\ syncs = [s \in 1..MaxSync |-> NoSync]

InitStore(r, N, E) == InitStoreAt(r, N, E, <<Me>>)

InitFields ==
  \E present \in SUBSET FieldIds : \E pick \in [present -> UNION {StoredNodes(id) : id \in FieldIds}] :
    /\ \A id \in present : pick[id] \in StoredNodes(id)
    /\ InitStore(V3, [n \in {pick[id] : id \in present} |-> 1], NoElems)

\* flushProfileUpdates with the batch of the profiles of ids (part_003 350-382)
FlushFields(ids, name) ==
  /\ ids # <<>>
  /\ UNCHANGED <<rev, reg, trust, error, session, user, navigationStack, selectedNode, loading, effL, due, runs, init, handlers>>
  /\ Rendered
  /\ SetGraphNodes(syncs, ApplyUpdates(Nodes, [i \in 1..Len(ids) |-> ProfileUpdate(ids[i], name)]), TRUE)

\* the setGraph of loadWebOfTrustScores with the scores newScores
\* (part_003 553-566)
TrustMergeFields(newScores) ==
  /\ UNCHANGED <<rev, reg, trust, error, session, user, navigationStack, selectedNode, loading, effL, due, runs, init, handlers>>
  /\ Rendered
  /\ SetGraphNodes(syncs, MapTrustScores(Nodes, newScores), TRUE)

FieldLists == UNION {[1..k -> FieldIds] : k \in 0..MaxList}
ScoreMaps == UNION {[S -> Scores] : S \in SUBSET FieldIds}

NextFields ==
  \/ \E ids \in FieldLists : \E name \in Names : FlushFields(ids, name)
  \/ \E newScores \in ScoreMaps : TrustMergeFields(newScores)

SpecFields == InitFields /\ [][NextFields]_vars

\* node n of the store is, after the step, a node with the same id, the
\* same position and the same values of the fields kept
KeepsFields(n, kept) ==
  \E m \in DOMAIN Nodes' :
    /\ m.id = n.id
    /\ Nodes'[m] = Nodes[n]
    /\ \A f \in {"x", "y"} \cup kept : Field(m, f) = Field(n, f)

\* C31: a profile merge leaves the position (x, y) and the trustScore of
\* every node of the store as they were, and a trust-score merge leaves the
\* position, label, color, profile and isCurrentUser of every node of the
\* store as they were.
C31_MergeKeepsOtherFields ==
  [][/\ \A ids \in FieldLists : \A name \in Names :
          FlushFields(ids, name) => \A n \in DOMAIN Nodes : KeepsFields(n, {"trustScore"})
     /\ \A newScores \in ScoreMaps :
          TrustMergeFields(newScores)
          => \A n \in DOMAIN Nodes : KeepsFields(n, {"label", "color", "profile", "isCurrentUser"})]_vars

\* a laid-out node with a trust score has received a profile, and a node
\* with a profile has a trust score
C31_Witness ==
  /\ \E n \in DOMAIN Nodes : {"x", "trustScore", "profile"} \subseteq DOMAIN n
  /\ \E n \in DOMAIN Nodes : n.label \in Names /\ Field(n, "trustScore") = <<1>>

\* ---------------------------------------------------------------- merge order
\* The contact lists of any identities merged into the store of a session,
\* by part_003 and by GraphProvider.tsx.
InitOrder ==
  \E r \in {V3, V2} :
    InitStore(r, IF r = V3 THEN One(CurrentUserNode(Me)) ELSE One(InitialNode(Me)), NoElems)

MergeCallV3(pubkey, followed) ==
  /\ rev = V3
  /\ MergeCall(pubkey, followed)

\* the callback of createFollowingSubscription for nodeId, called with
\* followingList from an up-to-date render (GraphProvider.tsx 129-172)
MergeCallV2(nodeId, followingList) ==
  /\ rev = V2
  /\ followingList # <<>>
  /\ due' = TRUE
  /\ UNCHANGED <<rev, reg, trust, error, session, user, navigationStack, selectedNode, loading, effL, runs, init, handlers>>
  /\ Rendered
  /\ LET g == MergeContactsV2(Nodes, Edges, nodeId, followingList)
     IN Commit(syncs, [nh EXCEPT ![1] = g.nodes], [eh EXCEPT ![1] = g.edges],
               1, NoElems, 1, NoElems, TRUE)

NextOrder ==
  \/ \E pubkey \in Ids : \E followed \in Lists : MergeCallV3(pubkey, followed)
  \/ \E nodeId \in Ids : \E followingList \in Lists : MergeCallV2(nodeId, followingList)

SpecOrder == InitOrder /\ [][NextOrder]_vars

\* the store after the contact list of a and then the contact list of b
\* have been merged into the store N, E
MergedInOrder(N, E, a, la, b, lb) ==
  IF rev = V3
  THEN LET g == MergeContactsV3(N, E, a, Limited(la))
       IN MergeContactsV3(g.nodes, g.edges, b, Limited(lb))
  ELSE LET g == MergeContactsV2(N, E, a, la)
       IN MergeContactsV2(g.nodes, g.edges, b, lb)

\* C32: merging the contact lists of two different identities into the
\* store in either order yields the same set of node ids and the same set
\* of edges, also when each identity follows the other.
C32_MergeOrderIndependent ==
  \A a \in Ids : \A b \in Ids \ {a} : \A la \in Lists : \A lb \in Lists :
    LET ab == MergedInOrder(Nodes, Edges, a, la, b, lb)
        ba == MergedInOrder(Nodes, Edges, b, lb, a, la)
    IN /\ IdsOf(ab.nodes) = IdsOf(ba.nodes)
       /\ DOMAIN ab.edges = DOMAIN ba.edges

\* ---------------------------------------------------------------- notes
\* handleSelectNode and loadNotesForNode of the three revisions with the
\* notes they display; the graph is left out and any identity is selected.
NotesInFlight == \E c \in 1..Len(reg.calls) : reg.calls[c].fn = "notes"

\* handleSelectNode(node) of part_003 (672-678, 775) with loadNotesForNode
\* up to its await (96-156)
SelectNotesV3(nodeId) ==
  /\ rev = V3
  /\ user # 0
  /\ rSel # nodeId
  /\ selectedNode' = nodeId
  /\ IF reg.notesLoaded = nodeId THEN UNCHANGED reg
     ELSE /\ CanSubscribe
          /\ CanCall
          /\ LET new == Len(reg.subs) + 1 IN
             reg' = [reg EXCEPT !.subs = Append(Stop(@, {reg.notesRef} \ {0}), NewSub("notes", nodeId, FALSE)),
                                !.notesRef = new,
                                !.active = Append(@, new),
                                !.notesError = FALSE,
                                !.isLoadingNotes = TRUE,
                                !.calls = Append(@, Call("notes", nodeId, new))]
  /\ UNCHANGED <<rev, trust, error, session, user, navigationStack, loading, effL, due, runs, init, handlers>>
  /\ NotRendered
  /\ KeepGraph(syncs, FALSE)

\* EOSE or the 10 s timeout ends the wait of call c (part_003 153-172): the
\* notes collected for the identity of the call are displayed
NotesDoneV3(c, eose) ==
  /\ rev = V3
  /\ c \in 1..Len(reg.calls)
  /\ reg.calls[c].fn = "notes"
  /\ eose => ~reg.subs[reg.calls[c].sub].stopped
  /\ reg' = [reg EXCEPT !.subs = IF eose THEN Stop(@, {reg.calls[c].sub}) ELSE @,
                        !.userNotes = reg.calls[c].id,
                        !.notesLoaded = reg.calls[c].id,
                        !.isLoadingNotes = FALSE,
                        !.calls = DropAt(@, c)]
  /\ UNCHANGED <<rev, trust, error, session, user, navigationStack, selectedNode, loading, effL, due, runs, init, handlers>>
  /\ Rendered
  /\ KeepGraph(syncs, TRUE)

\* handleSelectNode(node) of GraphProvider.tsx (190, 284) with
\* loadNotesForNode up to await getUserNotes (62-80)
SelectNotesV2(nodeId) ==
  /\ rev = V2
  /\ user # 0
  /\ CanCall
  /\ selectedNode' = nodeId
  /\ reg' = [reg EXCEPT !.subs = Stop(@, {reg.map[<<"notes", nodeId>>]} \ {0}),
                        !.map[<<"notes", nodeId>>] = 0,
                        !.notesError = FALSE,
                        !.isLoadingNotes = TRUE,
                        !.calls = Append(@, Call("notes", nodeId, 0))]
  /\ UNCHANGED <<rev, trust, error, session, user, navigationStack, loading, effL, due, runs, init, handlers>>
  /\ NotRendered
  /\ KeepGraph(syncs, FALSE)

\* getUserNotes resolved (ok) or rejected in call c (GraphProvider.tsx
\* 79-104)
NotesDoneV2(c, ok) ==
  /\ rev = V2
  /\ c \in 1..Len(reg.calls)
  /\ reg.calls[c].fn = "notes"
  /\ IF ok
     THEN /\ CanSubscribe
          /\ reg' = [reg EXCEPT !.subs = Append(@, NewSub("notes", reg.calls[c].id, FALSE)),
                                !.map[<<"notes", reg.calls[c].id>>] = Len(reg.subs) + 1,
                                !.userNotes = reg.calls[c].id,
                                !.isLoadingNotes = FALSE,
                                !.calls = DropAt(@, c)]
     ELSE reg' = [reg EXCEPT !.notesError = TRUE, !.userNotes = 0, !.isLoadingNotes = FALSE,
                             !.calls = DropAt(@, c)]
  /\ UNCHANGED <<rev, trust, error, session, user, navigationStack, selectedNode, loading, effL, due, runs, init, handlers>>
  /\ Rendered
  /\ KeepGraph(syncs, TRUE)

\* a note arrives on notes subscription i (GraphProvider.tsx 88-91)
NoteEventV2(i) ==
  /\ rev = V2
  /\ i \in 1..Len(reg.subs)
  /\ reg.subs[i].kind = "notes"
  /\ ~reg.subs[i].stopped
  /\ reg' = [reg EXCEPT !.userNotes = reg.subs[i].key]
  /\ UNCHANGED <<rev, trust, error, session, user, navigationStack, selectedNode, loading, effL, due, runs, init, handlers>>
  /\ Rendered
  /\ KeepGraph(syncs, TRUE)

\* handleSelectNode(node) of part_004 (74, 159) with loadNotesForNode up to
\* await getUserNotes (51-61)
SelectNotesV1(nodeId) ==
  /\ rev = V1
  /\ user # 0
  /\ CanCall
  /\ selectedNode' = nodeId
  /\ reg' = [reg EXCEPT !.notesError = FALSE, !.isLoadingNotes = TRUE,
                        !.calls = Append(@, Call("notes", nodeId, 0))]
  /\ UNCHANGED <<rev, trust, error, session, user, navigationStack, loading, effL, due, runs, init, handlers>>
  /\ NotRendered
  /\ KeepGraph(syncs, FALSE)

\* getUserNotes resolved (ok) or rejected in call c (part_004 61-69)
NotesDoneV1(c, ok) ==
  /\ rev = V1
  /\ c \in 1..Len(reg.calls)
  /\ reg.calls[c].fn = "notes"
  /\ reg' = IF ok THEN [reg EXCEPT !.userNotes = reg.calls[c].id, !.isLoadingNotes = FALSE,
                                   !.calls = DropAt(@, c)]
            ELSE [reg EXCEPT !.notesError = TRUE, !.userNotes = 0, !.isLoadingNotes = FALSE,
                             !.calls = DropAt(@, c)]
  /\ UNCHANGED <<rev, trust, error, session, user, navigationStack, selectedNode, loading, effL, due, runs, init, handlers>>
  /\ Rendered
  /\ KeepGraph(syncs, TRUE)

NextNotes ==
  \/ LoginSubs(Me)
  \/ Render
  \/ SelectNull
  \/ \E x \in Ids : SelectNotesV3(x)
  \/ \E c \in 1..MaxCalls : \E eose \in BOOLEAN : NotesDoneV3(c, eose)
  \/ \E x \in Ids : SelectNotesV2(x)
  \/ \E c \in 1..MaxCalls : \E ok \in BOOLEAN : NotesDoneV2(c, ok)
  \/ \E i \in 1..MaxSubs : NoteEventV2(i)
  \/ \E x \in Ids : SelectNotesV1(x)
  \/ \E c \in 1..MaxCalls : \E ok \in BOOLEAN : NotesDoneV1(c, ok)

SpecNotes == Init /\ [][NextNotes]_vars

\* C33: whenever no notes load is in flight, a node is selected and no
\* notes error is set, the displayed notes are the notes of the selected
\* node.
C33_NotesOfSelectedNode ==
  (~NotesInFlight /\ selectedNode # 0 /\ ~reg.notesError) => reg.userNotes = selectedNode

\* ---------------------------------------------------------------- notes array
\* The array a notes subscription collects its events in: the array of
\* createNotesSubscription (part_008 163) and the array of loadNotesForNode
\* of part_003 (138).  An event id is the hash of the event, so an id
\* determines created_at; created_at 0 stands for a missing created_at.
MaxEvents == 5
NotesLimit == 3
MaxNotes == 3
FilterLimit == 20
CreatedAt(i) == (2 * i) % 3
NoteEvents == {[id |-> i, created_at |-> CreatedAt(i)] : i \in 1..MaxEvents}

\* s with e placed behind the elements that are not older than e
InsertByCreatedAt(s, e) ==
  LET k == Cardinality({i \in 1..Len(s) : s[i].created_at >= e.created_at})
  IN SubSeq(s, 1, k) \o <<e>> \o SubSeq(s, k + 1, Len(s))
\* notes.sort((a, b) => (b.created_at || 0) - (a.created_at || 0)), a
\* stable sort
RECURSIVE SortNewestFirst(_)
SortNewestFirst(s) ==
  IF s = <<>> THEN <<>>
  ELSE InsertByCreatedAt(SortNewestFirst(SubSeq(s, 1, Len(s) - 1)), s[Len(s)])

\* the 'event' handler of createNotesSubscription (part_008 176-198)
OnNote(stored, event, limit) ==
  IF \E i \in 1..Len(stored) : stored[i].id = event.id
  THEN [stored EXCEPT ![IndexOf([j \in 1..Len(stored) |-> stored[j].id], event.id)] = event]
  ELSE LET sorted == SortNewestFirst(Append(stored, event))
       IN SubSeq(sorted, 1, IF Len(sorted) > limit THEN limit ELSE Len(sorted))

\* an event arrives on the subscription of createNotesSubscription(pubkey,
\* NotesLimit, ...)
NoteReceivedV2(event) ==
  /\ rev = V2
  /\ reg' = [reg EXCEPT !.notes = OnNote(@, event, NotesLimit)]
  /\ UNCHANGED <<rev, trust, session, user, loading, rLoading, effL, GraphVars>>

\* an event arrives on the subscription of loadNotesForNode of part_003
\* (139-141); the subscription delivers an event id once
NoteReceivedV3(event) ==
  /\ rev = V3
  /\ Len(reg.notes) < MaxNotes
  /\ \A i \in 1..Len(reg.notes) : reg.notes[i].id # event.id
  /\ reg' = [reg EXCEPT !.notes = Append(@, event)]
  /\ UNCHANGED <<rev, trust, session, user, loading, rLoading, effL, GraphVars>>

InitArray == Init /\ rev \in {V3, V2}

NextArray ==
  \/ \E event \in NoteEvents : NoteReceivedV2(event)
  \/ \E event \in NoteEvents : NoteReceivedV3(event)

SpecArray == InitArray /\ [][NextArray]_vars

\* the limit of the subscription
LimitOf(r) == IF r = V3 THEN FilterLimit ELSE NotesLimit

\* C34: after every event processed by a notes subscription the notes
\* array holds at most limit notes, no two notes with the same id, and is
\* ordered by created_at from newest to oldest.
C34_NotesArrayBoundedUniqueSorted ==
  /\ Len(reg.notes) <= LimitOf(rev)
  /\ \A i \in 1..Len(reg.notes) : \A j \in 1..Len(reg.notes) :
       /\ (i # j) => reg.notes[i].id # reg.notes[j].id
       /\ (i < j) => reg.notes[i].created_at >= reg.notes[j].created_at

\* ---------------------------------------------------------------- following list
\* createFollowingSubscription (part_008 217-298) for one identity: contact
\* list events arrive on the subscription and the initial fetch resolves
\* with the events the relays returned.
MaxStamp == 4
Stamps == 1..MaxStamp
ContactLists == {<<2>>, <<3>>, <<2, 3>>}
ContactEvents == {[created_at |-> t, following |-> l] : t \in Stamps, l \in ContactLists}
Max(S) == CHOOSE x \in S : \A y \in S : y <= x

\* createFollowingSubscription(pubkey, onUpdate, ndk) is called (part_008
\* 223-233, 262)
FollowingCreate ==
  /\ rev = V2
  /\ reg.following = NoReg.following
  /\ reg' = [reg EXCEPT !.following.fetch = TRUE]
  /\ UNCHANGED <<rev, trust, session, user, loading, rLoading, effL, GraphVars>>

\* subscription.on('event') (part_008 235-259)
FollowingEvent(event) ==
  /\ rev = V2
  /\ reg.following # NoReg.following
  /\ LET f == reg.following
         isNewerEvent == f.lastEventTimestamp = 0 \/ event.created_at > f.lastEventTimestamp
     IN reg' = [reg EXCEPT !.following =
                  IF isNewerEvent
                  THEN [f EXCEPT !.currentFollowing = event.following,
                                 !.lastEventTimestamp = event.created_at,
                                 !.from = event.created_at,
                                 !.received = @ \cup {event.created_at}]
                  ELSE [f EXCEPT !.received = @ \cup {event.created_at}]]
  /\ UNCHANGED <<rev, trust, session, user, loading, rLoading, effL, GraphVars>>

\* the latest of the fetched events: the loop of part_008 263-271 over the
\* events in order
RECURSIVE LatestOf(_, _)
LatestOf(latestEvent, events) ==
  IF events = <<>> THEN latestEvent
  ELSE LatestOf(IF latestEvent = <<>> \/ Head(events).created_at > latestEvent[1].created_at
                THEN <<Head(events)>> ELSE latestEvent,
                Tail(events))

\* fetchEvents(filter) resolves with events (part_008 262-293)
FollowingFetched(events) ==
  /\ rev = V2
  /\ reg.following.fetch
  /\ LET f == reg.following
         latestEvent == LatestOf(<<>>, events)
     IN reg' = [reg EXCEPT !.following =
                  IF latestEvent # <<>>
                  THEN [f EXCEPT !.fetch = FALSE,
                                 !.currentFollowing = latestEvent[1].following,
                                 !.lastEventTimestamp = latestEvent[1].created_at,
                                 !.from = latestEvent[1].created_at,
                                 !.received = @ \cup {events[i].created_at : i \in 1..Len(events)}]
                  ELSE [f EXCEPT !.fetch = FALSE]]
  /\ UNCHANGED <<rev, trust, session, user, loading, rLoading, effL, GraphVars>>

Fetches == UNION {[1..k -> ContactEvents] : k \in 0..MaxList}

InitFollowing == Init /\ rev = V2

NextFollowing ==
  \/ FollowingCreate
  \/ \E event \in ContactEvents : FollowingEvent(event)
  \/ \E events \in Fetches : FollowingFetched(events)

SpecFollowing == InitFollowing /\ [][NextFollowing]_vars

\* C35: the following list handed to onUpdate comes from the contact-list
\* event with the greatest created_at received so far.
C35_FollowingFromNewestEvent ==
  reg.following.received # {} => reg.following.from = Max(reg.following.received)

\* the step is a call of loadWebOfTrustScores(r) that applies cached scores
AppliesCached(r) ==
  /\ Len(trust'.calls) > Len(trust.calls)
  /\ trust'.calls[Len(trust'.calls)] = r
  /\ trust'.cachedScores # <<>>

\* C36: the trust scores a call of loadWebOfTrustScores(r) applies were
\* computed for the root identity r: scores persisted for another root
\* identity are never applied.
C36_AppliedScoresAreOfRoot ==
  [][\A r \in Ids : AppliesCached(r) => trust.writtenFor = r]_vars

\* ---------------------------------------------------------------- timers
\* The waits of the three loaders of part_003 in milliseconds, with a clock
\* (trust.now).  Time passes up to the next pending timer and a timer fires
\* when it is due; the events of the network (contact list, EOSE, socket
\* open or error, DVM response) may come at any time or never.  The loaders
\* share no flag, so one call is followed at a time.
ContactsWait == 5000
ProfilesDrain == 8000
EoseBuffer == 1000
NotesWait == 10000
ConnectWait == 5000
RetryDelay == 1000
ResponseWait == 15000
MaxClock == 20000

Timed == reg.timed
Idle == NoReg.timed
PendingTimers == {Timed.due, Timed.eoseDue} \ {0}
TimedFrame == UNCHANGED <<rev, session, user, effL, GraphVars>>
SetLoading(v) == loading' = v /\ rLoading' = v
SetTrustLoading(v) == trust' = [trust EXCEPT !.isLoadingTrustScores = v, !.rIsLoading = v]

TimePasses ==
  /\ PendingTimers # {}
  /\ \A t \in PendingTimers : trust.now < t
  /\ trust' = [trust EXCEPT !.now = CHOOSE t \in PendingTimers : \A u \in PendingTimers : t <= u]
  /\ UNCHANGED <<reg, loading, rLoading>>
  /\ TimedFrame

\* loadFollowersForNode(pubkey) up to its await (part_003 203-252)
TimedFollowersCall ==
  /\ Timed = Idle
  /\ trust.now < MaxClock
  /\ ~loading
  /\ reg' = [reg EXCEPT !.timed = [Idle EXCEPT !.fn = "followers", !.phase = "contacts",
                                               !.start = trust.now,
                                               !.due = trust.now + ContactsWait]]
  /\ SetLoading(TRUE)
  /\ UNCHANGED trust
  /\ TimedFrame

\* sub.on('event') (part_003 241-244): the subscription is stopped
TimedContactEvent ==
  /\ Timed.phase = "contacts"
  /\ ~Timed.got
  /\ reg' = [reg EXCEPT !.timed.got = TRUE]
  /\ UNCHANGED <<trust, loading, rLoading>>
  /\ TimedFrame

\* the wait for the contact list ends by EOSE or by its timer (part_003
\* 246-277, 334-442); the list has no p tag (empty) or some
TimedContactsEnd(timeout, empty) ==
  /\ Timed.phase = "contacts"
  /\ IF timeout THEN trust.now = Timed.due ELSE ~Timed.got
  /\ IF Timed.got /\ ~empty
     THEN /\ reg' = [reg EXCEPT !.timed = [Timed EXCEPT !.phase = "profiles", !.got = FALSE,
                                                        !.due = trust.now + ProfilesDrain]]
          /\ UNCHANGED <<loading, rLoading>>
     ELSE /\ reg' = [reg EXCEPT !.timed = Idle]
          /\ SetLoading(FALSE)
  /\ UNCHANGED trust
  /\ TimedFrame

\* profileSub.on('eose') (part_003 445-457)
TimedProfilesEose ==
  /\ Timed.phase = "profiles"
  /\ ~Timed.got
  /\ Timed.due # 0
  /\ reg' = [reg EXCEPT !.timed.got = TRUE, !.timed.eoseDue = trust.now + EoseBuffer]
  /\ UNCHANGED <<trust, loading, rLoading>>
  /\ TimedFrame

\* a drain timer that never fires
TimedDrainNever == FALSE
\* the timer of part_003 432-442
TimedDrainTimer ==
  /\ Timed.phase = "profiles"
  /\ trust.now = Timed.due
  /\ reg' = [reg EXCEPT !.timed = IF Timed.eoseDue = 0 THEN Idle ELSE [Timed EXCEPT !.due = 0]]
  /\ SetLoading(FALSE)
  /\ UNCHANGED trust
  /\ TimedFrame

\* the timer of part_003 447-456
TimedEoseTimer ==
  /\ Timed.phase = "profiles"
  /\ trust.now = Timed.eoseDue
  /\ reg' = [reg EXCEPT !.timed = IF Timed.due = 0 THEN Idle ELSE [Timed EXCEPT !.eoseDue = 0]]
  /\ SetLoading(FALSE)
  /\ UNCHANGED trust
  /\ TimedFrame

\* loadNotesForNode(nodeId) up to its await (part_003 96-156)
TimedNotesCall ==
  /\ Timed = Idle
  /\ trust.now < MaxClock
  /\ reg' = [reg EXCEPT !.isLoadingNotes = TRUE,
                        !.timed = [Idle EXCEPT !.fn = "notes", !.phase = "notes",
                                               !.start = trust.now,
                                               !.due = trust.now + NotesWait]]
  /\ UNCHANGED <<trust, loading, rLoading>>
  /\ TimedFrame

\* EOSE or the timer ends the wait (part_003 153-172)
TimedNotesEnd(timeout) ==
  /\ Timed.phase = "notes"
  /\ timeout => trust.now = Timed.due
  /\ reg' = [reg EXCEPT !.isLoadingNotes = FALSE, !.timed = Idle]
  /\ UNCHANGED <<trust, loading, rLoading>>
  /\ TimedFrame

\* the phase of getWebOfTrust after a look at the relay pool (part_009
\* 416-418, 429-439): the response wait with its timer, or the return of
\* the empty result
Request == [Timed EXCEPT !.fn = "trust", !.phase = "response", !.start = trust.now,
                         !.due = trust.now + ResponseWait]
Connect(phase) == [Timed EXCEPT !.fn = "trust", !.phase = phase, !.start = trust.now,
                                !.due = trust.now + ConnectWait]

\* loadWebOfTrustScores(rootPubkey) up to its first await (part_003 473-529;
\* part_009 409-421)
TimedTrustCall(isConnectedToVertex, hasConnectedRelays) ==
  /\ Timed = Idle
  /\ trust.now < MaxClock
  /\ ~trust.isLoadingTrustScores
  /\ reg' = [reg EXCEPT !.timed = IF ~isConnectedToVertex THEN Connect("connect")
                                  ELSE IF hasConnectedRelays THEN Request
                                  ELSE Connect("connectFirst")]
  /\ SetTrustLoading(TRUE)
  /\ UNCHANGED <<loading, rLoading>>
  /\ TimedFrame

\* the socket of connectToVertex opens or fails, at the latest when its
\* timer closes it (part_009 304-336)
TimedConnectEnds(timeout, connected, inPool) ==
  /\ Timed.phase \in {"connect", "connectFirst", "connectAgain"}
  /\ timeout => (trust.now = Timed.due /\ ~connected)
  /\ IF Timed.phase = "connect"
     THEN /\ reg' = [reg EXCEPT !.timed = IF inPool THEN Request ELSE Connect("connectFirst")]
          /\ UNCHANGED trust
     ELSE IF Timed.phase = "connectFirst" /\ ~connected
     THEN /\ reg' = [reg EXCEPT !.timed = [Timed EXCEPT !.phase = "retry",
                                                        !.due = trust.now + RetryDelay]]
          /\ UNCHANGED trust
     ELSE IF inPool
     THEN /\ reg' = [reg EXCEPT !.timed = Request]
          /\ UNCHANGED trust
     ELSE /\ reg' = [reg EXCEPT !.timed = Idle]
          /\ SetTrustLoading(FALSE)
  /\ UNCHANGED <<loading, rLoading>>
  /\ TimedFrame

\* the timer of part_009 424
TimedRetryTimer ==
  /\ Timed.phase = "retry"
  /\ trust.now = Timed.due
  /\ reg' = [reg EXCEPT !.timed = Connect("connectAgain")]
  /\ UNCHANGED <<trust, loading, rLoading>>
  /\ TimedFrame

\* the response of the DVM or the timer of part_009 475-480 ends the wait;
\* loadWebOfTrustScores returns through its finally (part_003 528-575)
TimedResponseEnds(timeout) ==
  /\ Timed.phase = "response"
  /\ timeout => trust.now = Timed.due
  /\ reg' = [reg EXCEPT !.timed = Idle]
  /\ SetTrustLoading(FALSE)
  /\ UNCHANGED <<loading, rLoading>>
  /\ TimedFrame

InitTimed == InitStore(V3, One(CurrentUserNode(Me)), NoElems)

\* the steps the program takes by itself: time passes and timers fire
TimedTimers ==
  \/ TimePasses
  \/ \E empty \in BOOLEAN : TimedContactsEnd(TRUE, empty)
  \/ TimedDrainTimer
  \/ TimedEoseTimer
  \/ TimedNotesEnd(TRUE)
  \/ \E inPool \in BOOLEAN : TimedConnectEnds(TRUE, FALSE, inPool)
  \/ TimedRetryTimer
  \/ TimedResponseEnds(TRUE)

NextTimed ==
  \/ TimedTimers
  \/ TimedFollowersCall
  \/ TimedContactEvent
  \/ \E empty \in BOOLEAN : TimedContactsEnd(FALSE, empty)
  \/ TimedProfilesEose
  \/ TimedNotesCall
  \/ TimedNotesEnd(FALSE)
  \/ \E a \in BOOLEAN : \E b \in BOOLEAN : TimedTrustCall(a, b)
  \/ \E connected \in BOOLEAN : \E inPool \in BOOLEAN : TimedConnectEnds(FALSE, connected, inPool)
  \/ TimedResponseEnds(FALSE)

SpecTimed == InitTimed /\ [][NextTimed]_vars /\ WF_vars(TimedTimers)

\* the loading flags are clear
FlagsClear == ~loading /\ ~reg.isLoadingNotes /\ ~trust.isLoadingTrustScores

InitDeselect ==
  \E r \in {V3, V2} : \E stack \in {<<Me>>, <<Me, 2>>, <<Me, 2, 3>>} :
    LET g == IF r = V3 THEN MergeContactsV3(One(CurrentUserNode(Me)), NoElems, Me, <<2, 3>>)
             ELSE MergeContactsV2(One(InitialNode(Me)), NoElems, Me, <<2, 3>>)
    IN InitStoreAt(r, g.nodes, g.edges, stack)

NextDeselect ==
  \/ Render
  \/ SelectNull
  \/ \E x \in Ids : SelectNotesV3(x)
  \/ \E c \in 1..MaxCalls : \E eose \in BOOLEAN : NotesDoneV3(c, eose)
  \/ \E x \in Ids : SelectNotesV2(x)
  \/ \E c \in 1..MaxCalls : \E ok \in BOOLEAN : NotesDoneV2(c, ok)

SpecDeselect == InitDeselect /\ [][NextDeselect]_vars

\* C38: handleSelectNode(null) leaves the navigation stack and the graph
\* store as they were; it empties the displayed notes and clears the notes
\* error, and the selection is cleared.
C38_DeselectKeepsStackAndStore ==
  [][SelectNull
     => /\ navigationStack' = navigationStack
        /\ Nodes' = Nodes
        /\ Edges' = Edges
        /\ selectedNode' = 0
        /\ reg'.userNotes = 0
        /\ ~reg'.notesError
        /\ <<loading, error, trust, handlers, syncs>>' = <<loading, error, trust, handlers, syncs>>
        /\ reg'.calls = reg.calls /\ reg'.subs = reg.subs]_vars

\* the selection has been cleared after a notes load had completed, with
\* two entries on the navigation stack and three nodes in the store
C38_Witness ==
  /\ selectedNode = 0
  /\ rSel # 0
  /\ reg.userNotes = 0
  /\ reg.subs # <<>>
  /\ reg.calls = <<>>
  /\ Len(navigationStack) >= 2
  /\ Size(Nodes) >= 3
  /\ Edges # NoElems

\* ---------------------------------------------------------------- colours
\* A key is the sequence of its char codes.  The hash of generateColor and
\* generateNodeColor is a JavaScript number: hash << 5 is a 32-bit signed
\* integer, the difference and the sum are not wrapped.  A number is kept
\* as [hi, lo] with value hi * 2^16 + lo and lo in 0..2^16 - 1.
MaxKeyLen == 8
CharCodes == {48, 102}
Keys == UNION {[1..k -> CharCodes] : k \in 0..MaxKeyLen}
Half == 2 ^ 16

Norm(hi, lo) == [hi |-> hi + lo \div Half, lo |-> lo % Half]
\* ToInt32(v)
ToInt32(v) == LET h == v.hi % Half IN (IF h >= 32768 THEN h - Half ELSE h) * Half + v.lo
FromInt32(i) == [hi |-> i \div Half, lo |-> i % Half]
\* v << 5
Shl5(v) == LET lo5 == v.lo * 32
           IN ToInt32([hi |-> ((v.hi % Half) * 32 + lo5 \div Half) % Half, lo |-> lo5 % Half])
\* v >> k for a divisor d = 2^k
Shr(v, d) == ToInt32(v) \div d
\* the remainder v % n of JavaScript: it has the sign of v
Rem(v, n) == LET m == ((v.hi % n) * (Half % n) + v.lo) % n
             IN IF v.hi < 0 /\ m # 0 THEN m - n ELSE m
RemInt(i, n) == Rem(FromInt32(i), n)
Abs(i) == IF i < 0 THEN -i ELSE i

\* the loop of graph.ts 8-11 and part_006 9-12
RECURSIVE HashFrom(_, _)
HashFrom(hash, pubkey) ==
  IF pubkey = <<>> THEN hash
  ELSE LET shifted == FromInt32(Shl5(hash))
           next == Norm(shifted.hi - hash.hi, shifted.lo - hash.lo + Head(pubkey))
       \* the test has next computed before the following round starts
       IN IF next.lo >= 0 THEN HashFrom(next, Tail(pubkey)) ELSE next
Hash(pubkey) == HashFrom([hi |-> 0, lo |-> 0], pubkey)

\* generateNodeColor (utils/graph.ts 6-19)
generateNodeColor(pubkey) ==
  LET hash == Hash(pubkey)
  IN [h |-> RemInt(Rem(hash, 180) + 120, 360),
      s |-> 70 + Rem(hash, 20),
      l |-> 45 + Rem(hash, 10)]

\* generateColor (part_006 7-20)
generateColor(pubkey) ==
  LET hash == Hash(pubkey)
  IN [h |-> Abs(Rem(hash, 360)),
      s |-> 60 + Abs(RemInt(Shr(hash, 8), 40)),
      l |-> 45 + Abs(RemInt(Shr(hash, 64), 30))]

\* the colours of a key are computed
ColorCall(pubkey) ==
  /\ reg' = [reg EXCEPT !.util = <<[pubkey |-> pubkey, negative |-> Hash(pubkey).hi < 0,
                                    nodeColor |-> generateNodeColor(pubkey),
                                    color |-> generateColor(pubkey)]>>]
  /\ UNCHANGED <<rev, trust, session, user, loading, rLoading, effL, GraphVars>>

InitColors == Init /\ rev = V2

NextColors == \E pubkey \in Keys : ColorCall(pubkey)

SpecColors == InitColors /\ [][NextColors]_vars

\* C40: for every key, generateNodeColor returns a hue in [120, 300], a
\* saturation in [70, 90] and a lightness in [45, 55], and generateColor a
\* hue in [0, 359], a saturation in [60, 100] and a lightness in [45, 75].
C40_ColorsInRange ==
  \A i \in 1..Len(reg.util) :
    LET n == reg.util[i].nodeColor
        c == reg.util[i].color
    IN /\ n.h \in 120..300 /\ n.s \in 70..90 /\ n.l \in 45..55
       /\ c.h \in 0..359 /\ c.s \in 60..100 /\ c.l \in 45..75

\* ---------------------------------------------------------------- createNodeFromUser
\* Calls of createNodeFromUser (part_006 29-57) with one profile cache.
\* Strings are sequences of char codes; a profile has a name and a
\* displayName, the empty string when the field is missing.
MaxLog == 2
LongKey == <<102, 48, 48, 48, 48, 48, 102, 102, 48, 102, 48, 102>>
ShortKey == <<102, 48, 102>>
CacheKeys == {LongKey, ShortKey}
EmptyProfile == [name |-> <<>>, displayName |-> <<>>]
FetchedProfiles == {EmptyProfile,
                    [name |-> <<97, 108, 105, 99, 101>>, displayName |-> <<>>],
                    [name |-> <<>>, displayName |-> <<65, 108>>]}
FocusColor == [hex |-> "#FF5722"]

\* s.slice(0, n) and s.slice(-n)
SliceTo(s, n) == SubSeq(s, 1, IF Len(s) < n THEN Len(s) ELSE n)
SliceLast(s, n) == SubSeq(s, IF Len(s) < n THEN 1 ELSE Len(s) - n + 1, Len(s))

\* truncatePubkey (part_006 22-26)
truncatePubkey(pubkey) ==
  IF pubkey = <<>> THEN <<>>
  ELSE SliceTo(pubkey, 6) \o <<46, 46, 46>> \o SliceLast(pubkey, 4)

\* createNodeFromUser without line 40: a fetched profile is not put into
\* the cache
createNodeNoSet(pubkey, isCurrentUser, existingProfiles, ok, fetched) ==
  LET hit == pubkey \in DOMAIN existingProfiles
      profile == IF hit THEN existingProfiles[pubkey]
                 ELSE IF ok THEN fetched ELSE EmptyProfile
      displayName == IF profile.name # <<>> THEN profile.name
                     ELSE IF profile.displayName # <<>> THEN profile.displayName
                     ELSE truncatePubkey(pubkey)
  IN [node |-> [id |-> pubkey, label |-> displayName,
                size |-> IF isCurrentUser THEN 15 ELSE 10,
                color |-> IF isCurrentUser THEN FocusColor ELSE generateColor(pubkey),
                isCurrentUser |-> isCurrentUser, profile |-> profile],
      cache |-> existingProfiles,
      fetches |-> IF hit THEN 0 ELSE 1]

\* createNodeFromUser(pubkey, isCurrentUser, existingProfiles) with a fetch
\* that, if one is made, resolves with fetched (ok) or rejects: the node
\* returned, the cache afterwards and the number of fetches made
createNodeFromUser(pubkey, isCurrentUser, existingProfiles, ok, fetched) ==
  LET hit == pubkey \in DOMAIN existingProfiles
      profile == IF hit THEN existingProfiles[pubkey]
                 ELSE IF ok THEN fetched ELSE EmptyProfile
      displayName == IF profile.name # <<>> THEN profile.name
                     ELSE IF profile.displayName # <<>> THEN profile.displayName
                     ELSE truncatePubkey(pubkey)
  IN [node |-> [id |-> pubkey, label |-> displayName,
                size |-> IF isCurrentUser THEN 15 ELSE 10,
                color |-> IF isCurrentUser THEN FocusColor ELSE generateColor(pubkey),
                isCurrentUser |-> isCurrentUser, profile |-> profile],
      cache |-> IF ~hit /\ ok THEN existingProfiles @@ (pubkey :> fetched) ELSE existingProfiles,
      fetches |-> IF hit THEN 0 ELSE 1]

\* a call is made and returns; the last MaxLog calls are kept
CreateNodeCall(pubkey, isCurrentUser, ok, fetched) ==
  /\ (pubkey \in DOMAIN reg.profileCache) => (ok /\ fetched = EmptyProfile)
  /\ LET r == createNodeFromUser(pubkey, isCurrentUser, reg.profileCache, ok, fetched)
         entry == [pubkey |-> pubkey, isCurrentUser |-> isCurrentUser, before |-> reg.profileCache,
                   ok |-> ok, fetched |-> fetched, node |-> r.node, after |-> r.cache,
                   fetches |-> r.fetches]
         log == Append(reg.util, entry)
     IN reg' = [reg EXCEPT !.profileCache = r.cache,
                           !.util = IF Len(log) > MaxLog THEN Tail(log) ELSE log]
  /\ UNCHANGED <<rev, trust, session, user, loading, rLoading, effL, GraphVars>>

InitCreate == Init /\ rev = V2

NextCreate ==
  \E pubkey \in CacheKeys : \E isCurrentUser \in BOOLEAN : \E ok \in BOOLEAN :
    \E fetched \in FetchedProfiles : CreateNodeCall(pubkey, isCurrentUser, ok, fetched)

SpecCreate == InitCreate /\ [][NextCreate]_vars

\* call e found its key in the cache
Hit(e) == e.pubkey \in DOMAIN e.before
\* what the claim says of one call
CallAsClaimed(e) ==
  /\ Hit(e) => e.fetches = 0
  /\ ~Hit(e) => e.fetches = 1
  /\ (~Hit(e) /\ e.ok) => (e.pubkey \in DOMAIN e.after /\ e.after[e.pubkey] = e.fetched)
  /\ (~Hit(e) /\ ~e.ok) => e.node.label = truncatePubkey(e.pubkey)
  /\ \A k \in DOMAIN e.before : k \in DOMAIN e.after /\ e.after[k] = e.before[k]
SameResult(e, f) == e.node.label = f.node.label /\ e.node.color = f.node.color
SameCall(e, f) ==
  e.pubkey = f.pubkey /\ e.isCurrentUser = f.isCurrentUser /\ e.before = f.before

====
